---- MODULE Spec2Model ----
(***************************************************************************)
(* Keychron rotary-encoder menu system: the MenuStateMachine dispatcher of *)
(* python_host/menu_system.py, the mode handlers of mode_handlers.py and   *)
(* plugins/display_control.py, and the three threads of keychron_app.py    *)
(* that drive it (HID reader, deferred single-click threading.Timer,       *)
(* timeout poller).                                                        *)
(*                                                                         *)
(* Time.  The code stores time stamps (last_click_time, menu_timer) and    *)
(* only ever subtracts them from time.time(); the model stores the elapsed *)
(* milliseconds since each stamp instead.  Elapsed times advance together  *)
(* in Tick and saturate once they are past the threshold they are compared *)
(* with, so Sat(MENU_TIMEOUT_MS) stands for "more than MENU_TIMEOUT_MS".   *)
(***************************************************************************)
EXTENDS Integers, Sequences, FiniteSets, TLC

\* ------------------------------------------------------------------------
\* Program constants
\* ------------------------------------------------------------------------
DOUBLE_CLICK_MS == 300
MENU_TIMEOUT_MS == 5000
WRAP_PREV_INDEX == 3
\* Bytes of an event report: marker, event type, encoder id, value.
MinReportLen == 4
\* VolumeModeHandler.volume_step, VMGainHandler.gain_step (dB),
\* BrightnessControlHandler.step, the gain range of set_strip_gain (dB), the
\* brightness a press resets to, and the span of the gain range that
\* get_display_text divides by
VOLUME_STEP == 2
GAIN_STEP == 3
BRIGHTNESS_STEP == 5
GAIN_MIN == -60
GAIN_MAX == 12
BRIGHTNESS_RESET == 50
GAIN_SPAN == 72

\* ------------------------------------------------------------------------
\* Bounds of the model
\* ------------------------------------------------------------------------
\* Clock resolution: Tick advances every elapsed time by Quantum ms.  Events
\* less than a debounce window apart fall between two ticks; the deferred
\* click is due at the first tick after it was scheduled.
Quantum == 1000
\* The device delivers at most MaxEvents reports.
MaxEvents == 4
\* Reports delivered after a command was selected, in the liveness runs.
MaxLiveEvents == 2
\* Direct calls of the state machine's methods in the method-level runs.
MaxApiCalls == 3
\* get_visible_windows() returns at most MaxWindows windows.
MaxWindows == 1
\* _enumerate_monitors() finds at most MaxMonitors monitors.
MaxMonitors == 2
\* Largest registry size explored by the direction-inference specification.
MaxIndexModulus == 6
\* Reports delivered once setup has run, in the runs that start before setup.
MaxSetupEvents == 2
\* device.read() returns at most MaxReportLen bytes.
MaxReportLen == 5
\* get_contextual_commands() returns at most MaxContextCommands commands.
MaxContextCommands == 2
\* Clock resolution of the runs that tell apart presses made within one
\* debounce window.
ClickQuantum == 100
\* Gestures the user makes on the knob in the runs of the Qt application.
MaxGestures == 2

\* ------------------------------------------------------------------------
\* MenuMode
\* ------------------------------------------------------------------------
NORMAL == "NORMAL"

ThemeColorModes == {"THEME_BOX", "THEME_ACCENT", "THEME_TEXT"}

VMModes ==
  {"VOICEMEETER_MENU", "VM_MIC", "VM_MAIN_ROUTING", "VM_MUSIC_GAIN",
   "VM_MUSIC_ROUTING", "VM_COMM_GAIN", "VM_COMM_ROUTING"}

VMRoutingModes == {"VM_MAIN_ROUTING", "VM_MUSIC_ROUTING", "VM_COMM_ROUTING"}

DisplayModes ==
  {"DISPLAY_MENU", "DISPLAY_BRIGHTNESS", "DISPLAY_MODE", "DISPLAY_TOGGLE"}

BuiltinModes ==
  {"MEDIA", "VOLUME", "THEME_MENU", "WINDOW_MENU", "WINDOW_CYCLE", "WINDOW_SNAP"}
    \cup ThemeColorModes

MenuMode ==
  {NORMAL, "CONTEXT_MENU"} \cup BuiltinModes \cup VMModes \cup DisplayModes

\* The child modes of the submenu selectors, in list order.
Submenus(m) ==
  CASE m = "WINDOW_MENU"      -> <<"WINDOW_CYCLE", "WINDOW_SNAP", "show_desktop">>
    [] m = "THEME_MENU"       -> <<"THEME_BOX", "THEME_ACCENT", "THEME_TEXT">>
    [] m = "VOICEMEETER_MENU" -> <<"VM_MIC", "VM_MAIN_ROUTING", "VM_MUSIC_GAIN",
                                   "VM_MUSIC_ROUTING", "VM_COMM_GAIN",
                                   "VM_COMM_ROUTING">>
    [] m = "DISPLAY_MENU"     -> <<"DISPLAY_BRIGHTNESS", "DISPLAY_MODE",
                                   "DISPLAY_TOGGLE">>
    [] m = "WINDOW_SNAP"      -> <<"snap_left", "snap_right", "maximize">>
    [] m = "DISPLAY_MODE"     -> <<"pc", "duplicate", "extend", "second">>
    [] OTHER                  -> <<>>

SelectorModes ==
  {"WINDOW_MENU", "THEME_MENU", "VOICEMEETER_MENU", "DISPLAY_MENU",
   "WINDOW_SNAP", "DISPLAY_MODE"}

\* len(ThemeColorHandler.COLORS)
NumColors == 12

\* ------------------------------------------------------------------------
\* Setup: command registry and handler table
\* ------------------------------------------------------------------------
\* Outcome of loading plugins/display_control.py: not present, loaded, or
\* get_commands() succeeded and get_mode_handlers() raised.
PluginOutcomes == {"absent", "ok", "handlers_failed"}

\* A command is the mode its action enters, or "action" for an action that
\* does not touch the state machine.
\* _register_commands without the is_available() test: 'Voicemeeter Control'
\* is registered whether or not Voicemeeter is connected.
_register_commands_always(vm) ==
  <<"VOLUME", "VOICEMEETER_MENU", "MEDIA", "THEME_MENU", "WINDOW_MENU", "action">>

_register_commands(vm) ==
  <<"VOLUME">> \o (IF vm THEN <<"VOICEMEETER_MENU">> ELSE <<>>)
     \o <<"MEDIA", "THEME_MENU", "WINDOW_MENU", "action">>

load_plugins(cmds, plugin) ==
  IF plugin \in {"absent", "commands_failed"} THEN cmds
  ELSE Append(cmds, "DISPLAY_MENU")

\* plugins/context_commands.py, which iter_modules yields before
\* display_control: its command and its handler.
load_context_commands(cmds, ctx) ==
  IF ctx THEN Append(cmds, "CONTEXT_MENU") ELSE cmds

context_handlers(ctx) == IF ctx THEN {"CONTEXT_MENU"} ELSE {}

create_handlers(vm) ==
  BuiltinModes \cup (IF vm THEN VMModes ELSE {})

setup_handlers(vm, plugin) ==
  create_handlers(vm) \cup (IF plugin = "ok" THEN DisplayModes ELSE {})

\* The plugin modules of the model, in iter_modules order.
Plugins == {"context_commands", "display_control"}

\* How often load_plugins called a module's get_commands and
\* get_mode_handlers, given how loading it went: both are called once,
\* unless the module is absent or get_commands raised (the `except` of
\* load_plugins then skips get_mode_handlers).
CallsOf(outcome) ==
  [present |-> outcome # "absent",
   get_commands |-> IF outcome = "absent" THEN 0 ELSE 1,
   get_mode_handlers |-> IF outcome \in {"ok", "handlers_failed"} THEN 1 ELSE 0]

\* plugin_calls and plugin_handlers once load_plugins has returned.
LoadedCalls(ctx, plugin) ==
  [p \in Plugins |->
     IF p = "context_commands" THEN CallsOf(IF ctx THEN "ok" ELSE "absent")
     ELSE CallsOf(plugin)]

LoadedHandlers(ctx, plugin) ==
  context_handlers(ctx) \cup (IF plugin = "ok" THEN DisplayModes ELSE {})

\* ------------------------------------------------------------------------
\* State
\* ------------------------------------------------------------------------
VARIABLES
  \* AppState
  current_command, previous_command, menu_mode, submenu_index,
  last_click_time, click_count, last_rotation_index, routing_selection,
  menu_timer, window_list,
  \* MenuStateMachine
  commands, mode_handlers, single_click_timer,
  \* KeychronApp.setup: Voicemeeter connected, position in setup, how often
  \* each plugin's entry points were called, PluginManager.plugin_handlers
  vm_available, setup_pc, plugin_calls, plugin_handlers,
  \* KeychronApp
  last_command_index,
  \* handler-private fields
  current_idx, should_save, monitors, context_commands,
  \* the devices behind the linear controls: the endpoint's volume scalar
  \* and mute flag, the gain of the strip at hand, the monitor's brightness
  levels,
  \* KeychronApp (Qt): is_pressed, was_rotated_while_pressed and
  \* ignore_next_release; the gesture in progress: the events the firmware
  \* has still to emit for it, its kind, the handle_press calls it has
  \* produced, and the gestures still to come
  qt, gesture,
  \* threads: HID reader, its locals inside handle_press, timeout poller and
  \* the mode for which its check_menu_timeout() call has just returned True
  hid_pc, hid_local, poll_pc, poll_local,
  \* environment: reports the device may still deliver
  events_left,
  \* what the last step did: handler calls, enter_mode calls, notifications,
  \* display payloads, the step's name, whether an exception escaped it;
  \* exited = the modes whose handler had on_exit and no on_enter since
  calls, exited, entered, notes, shown, last_step, escaped,
  \* observer of the most recent press made in a menu mode
  watch

app_state ==
  <<current_command, previous_command, menu_mode, submenu_index,
    last_click_time, click_count, last_rotation_index, routing_selection,
    menu_timer, window_list>>

\* What setup builds and no event changes, and the device levels, which only
\* the specification of the linear controls follows.
registry ==
  <<vm_available, setup_pc, plugin_calls, plugin_handlers, commands,
    mode_handlers, levels, qt, gesture>>

vars ==
  <<current_command, previous_command, menu_mode, submenu_index,
    last_click_time, click_count, last_rotation_index, routing_selection,
    menu_timer, window_list, registry, single_click_timer,
    last_command_index, current_idx, should_save, monitors,
    context_commands, hid_pc, hid_local, poll_pc, poll_local, events_left,
    calls, exited, entered, notes, shown, last_step, escaped, watch>>

\* menu_timer = None
None == -1

Min(a, b) == IF a < b THEN a ELSE b
Max(a, b) == IF a > b THEN a ELSE b

\* The saturated value of an elapsed time compared with `limit`.
Sat(limit) == limit + 1

\* KeychronApp.__init__ (Qt): the three gesture flags.
QtIdle == [is_pressed |-> FALSE, was_rotated_while_pressed |-> FALSE,
           ignore_next_release |-> FALSE]

\* No gesture in progress.
NoGesture == [script |-> <<>>, kind |-> "none", presses |-> 0, left |-> MaxGestures]

\* An elapsed time `age` after d more milliseconds.
Later(age, d, limit) == Min(age + d, Sat(limit))

\* threading.Timer: ref = the field is not None, alive = started and neither
\* fired nor cancelled, rem = milliseconds left, mode = active mode when it
\* was scheduled, stale = a mode was entered since it was scheduled,
\* others = started timers, neither fired nor cancelled, that the field no
\* longer references.
\* cancelled = the latest cancel() stopped a timer that was still pending.
NoTimer == [ref |-> FALSE, alive |-> FALSE, rem |-> 0, mode |-> NORMAL, stale |-> FALSE,
            others |-> 0, cancelled |-> FALSE]

\* handle_press overwriting the field without cancelling the timer it held.
single_click_timer_dropped(tm) ==
  [NoTimer EXCEPT !.others = tm.others + (IF tm.alive THEN 1 ELSE 0)]

\* "if self.single_click_timer: cancel(); self.single_click_timer = None".
cancel_single_click_timer(tm) ==
  IF tm.ref THEN [NoTimer EXCEPT !.others = tm.others, !.cancelled = tm.alive]
  ELSE [NoTimer EXCEPT !.others = tm.others + (IF tm.alive THEN 1 ELSE 0)]

\* Observer of the most recent press made in a menu mode.  st: "first" = a
\* press that does not follow another menu press within the debounce window,
\* "second" = a press arriving within the window of a "first" one (being
\* handled), "done" = that second press has been handled.  age = ms since
\* the press arrived; quiet = no rotation, press or double tap has arrived
\* since; on_press = handler.on_press calls since the first press was
\* handled; to_normal = enter_mode(NORMAL) calls since the second press
\* arrived; by_dispatcher = the poller or the HID thread entered a mode since.
NoWatch == [st |-> "none", age |-> Sat(DOUBLE_CLICK_MS), quiet |-> FALSE,
            on_press |-> 0, to_normal |-> 0, by_dispatcher |-> FALSE]


\* ------------------------------------------------------------------------
\* The machine as a record, threaded through the calls of one dispatch.
\* exc = an exception is propagating (the rest of each call is skipped).
\* ------------------------------------------------------------------------
Machine ==
  [current_command |-> current_command, previous_command |-> previous_command,
   menu_mode |-> menu_mode, submenu_index |-> submenu_index,
   last_click_time |-> last_click_time, click_count |-> click_count,
   last_rotation_index |-> last_rotation_index,
   routing_selection |-> routing_selection, menu_timer |-> menu_timer,
   window_list |-> window_list, current_idx |-> current_idx,
   should_save |-> should_save, monitors |-> monitors,
   context_commands |-> context_commands,
   calls |-> <<>>, entered |-> <<>>, notes |-> <<>>, shown |-> <<>>,
   exc |-> FALSE]

\* What the environment answers during one dispatch: which handler method
\* raises (if any), how many windows / monitors are enumerated, the index of
\* the first non-primary monitor, whether activate_window (or the callback
\* of a contextual command, or toggling a monitor) succeeds, and how many contextual commands the
\* foreground application has.
FaultKinds == {"none", "on_rotation", "on_press", "on_enter", "get_display_text"}

Env ==
  [fault : FaultKinds, nwin : 0..MaxWindows, nmon : 0..MaxMonitors,
   first_secondary : 0..MaxMonitors, act_ok : BOOLEAN,
   nctx : 0..MaxContextCommands]

Quiet == [fault |-> "none", nwin |-> 0, nmon |-> 0, first_secondary |-> 0,
          act_ok |-> FALSE, nctx |-> 0]

\* The remainder truncated towards zero (C's %), negative for negative a.
TruncMod(a, n) == IF a < 0 THEN 0 - ((0 - a) % n) ELSE a % n

\* Python's % for a positive modulus.
PyMod(a, n) == ((a % n) + n) % n

\* A handler method is entered: it is recorded, and raises if the
\* environment says so.
Invoke(s, method, m, e) ==
  [s EXCEPT !.calls = Append(@, <<method, m>>), !.exc = (e.fault = method)]

show_notification(s, msg) == [s EXCEPT !.notes = Append(@, msg)]

\* CommandRegistry.get: the command at index, or "None".
CommandRegistry_get(index) ==
  IF 0 <= index /\ index < Len(commands) THEN commands[index + 1] ELSE "None"

CommandRegistry_count == Len(commands)

\* ModeHandler.get_display_text: the payload handed to the UI callback.
get_display_text(s, m, e) ==
  LET s1 == Invoke(s, "get_display_text", m, e)
      idx == IF m \in ThemeColorModes THEN s1.current_idx[m]
             ELSE IF m \in VMRoutingModes THEN s1.routing_selection
             ELSE s1.submenu_index
      payload(save) == [mode |-> m, index |-> idx, save_theme |-> save]
  IN  IF s1.exc THEN s1
      ELSE IF m \in ThemeColorModes
        THEN [s1 EXCEPT !.shown = Append(@, payload(s1.should_save[m])),
                        !.should_save[m] = FALSE]
      ELSE IF m = "DISPLAY_TOGGLE" /\ s1.monitors > 1
                /\ s1.submenu_index >= s1.monitors
        THEN [s1 EXCEPT !.exc = TRUE]
      ELSE IF m = "CONTEXT_MENU" /\ s1.context_commands > 1
                /\ s1.submenu_index >= s1.context_commands
        THEN [s1 EXCEPT !.exc = TRUE]
      ELSE [s1 EXCEPT !.shown = Append(@, payload(FALSE))]

\* MenuStateMachine.update_display
update_display(s, e) ==
  IF s.exc THEN s
  ELSE IF s.menu_mode = NORMAL
    THEN IF CommandRegistry_get(s.current_command) # "None"
           THEN show_notification(s, CommandRegistry_get(s.current_command))
           ELSE s
  ELSE IF s.menu_mode \in mode_handlers
    THEN get_display_text(s, s.menu_mode, e)
  ELSE s

\* MenuStateMachine.reset_menu_timer
reset_menu_timer(s) == [s EXCEPT !.menu_timer = 0]

RECURSIVE enter_mode(_, _, _)

\* MenuStateMachine.exit_menu_mode
exit_menu_mode(s, e) ==
  IF s.exc \/ s.menu_mode = NORMAL THEN s
  ELSE LET s1 == enter_mode(s, NORMAL, e)
       IN  IF s1.exc THEN s1
           ELSE show_notification(s1, "Returned to Normal Mode")

\* ModeHandler.on_exit
on_exit(s, m, e) ==
  LET s1 == Invoke(s, "on_exit", m, e)
  IN  IF m = "WINDOW_CYCLE" THEN [s1 EXCEPT !.window_list = 0]
      ELSE IF m = "CONTEXT_MENU" THEN [s1 EXCEPT !.context_commands = 0]
      ELSE s1

\* ModeHandler.on_enter
on_enter(s, m, e) ==
  LET s1 == Invoke(s, "on_enter", m, e)
  IN  IF s1.exc THEN s1
      ELSE IF m \in {"WINDOW_MENU", "WINDOW_SNAP", "THEME_MENU",
                     "VOICEMEETER_MENU", "DISPLAY_MENU"}
        THEN [s1 EXCEPT !.submenu_index = 0]
      ELSE IF m = "WINDOW_CYCLE"
        THEN [s1 EXCEPT !.window_list = e.nwin, !.submenu_index = 0]
      ELSE IF m \in ThemeColorModes
        THEN [s1 EXCEPT !.current_idx[m] = 0, !.should_save[m] = FALSE]
      ELSE IF m \in VMRoutingModes
        THEN [s1 EXCEPT !.routing_selection = 0]
      ELSE IF m = "DISPLAY_MODE"
        THEN [s1 EXCEPT !.submenu_index = 2]
      ELSE IF m = "DISPLAY_TOGGLE"
        THEN [s1 EXCEPT !.monitors = e.nmon,
                        !.submenu_index =
                           IF e.first_secondary < e.nmon
                             THEN e.first_secondary ELSE 0]
      ELSE IF m = "CONTEXT_MENU"
        THEN LET s2 == [s1 EXCEPT !.submenu_index = 0,
                                  !.context_commands = e.nctx]
             IN  IF e.nctx = 0
                   THEN exit_menu_mode(
                          show_notification(s2, "No contextual commands available"),
                          e)
                   ELSE s2
      ELSE s1

\* MenuStateMachine.enter_mode
enter_mode(s, mode, e) ==
  IF s.exc THEN s
  ELSE
    LET s0 == [s EXCEPT !.entered = Append(@, mode)]
        s1 == IF s0.menu_mode \in mode_handlers
                THEN on_exit(s0, s0.menu_mode, e) ELSE s0
        s2 == [s1 EXCEPT !.menu_mode = mode, !.click_count = 0,
                         !.last_rotation_index = 0, !.menu_timer = 0]
        s3 == IF mode \in mode_handlers THEN on_enter(s2, mode, e) ELSE s2
    IN  update_display(s3, e)

\* ModeHandler.on_rotation
on_rotation(s, m, clockwise, e) ==
  LET s1 == [Invoke(s, "on_rotation", m, e) EXCEPT
               !.calls = Append(s.calls, <<"on_rotation", m, clockwise>>)]
      d == IF clockwise THEN 1 ELSE -1
  IN  IF s1.exc THEN s1
      ELSE IF m \in SelectorModes
        THEN [s1 EXCEPT !.submenu_index = PyMod(@ + d, Len(Submenus(m)))]
      ELSE IF m = "WINDOW_CYCLE"
        THEN IF s1.window_list = 0 THEN s1
             ELSE [s1 EXCEPT !.submenu_index = PyMod(@ + d, s1.window_list)]
      ELSE IF m \in ThemeColorModes
        THEN [s1 EXCEPT !.current_idx[m] = PyMod(@ + d, NumColors)]
      ELSE IF m \in VMRoutingModes
        THEN [s1 EXCEPT !.routing_selection = PyMod(@ + d, 3)]
      ELSE IF m = "DISPLAY_TOGGLE"
        THEN IF s1.monitors = 0 THEN s1
             ELSE [s1 EXCEPT !.submenu_index = PyMod(@ + d, s1.monitors)]
      ELSE IF m = "CONTEXT_MENU"
        THEN IF s1.context_commands = 0 THEN s1
             ELSE [s1 EXCEPT !.submenu_index =
                               PyMod(@ + d, s1.context_commands)]
      ELSE s1

\* ModeHandler.on_press
on_press(s, m, e) ==
  LET s1 == Invoke(s, "on_press", m, e)
      opts == Submenus(m)
      i == s1.submenu_index + 1
  IN  IF s1.exc THEN s1
      ELSE IF m \in {"WINDOW_MENU", "THEME_MENU", "VOICEMEETER_MENU", "DISPLAY_MENU"}
        THEN IF i > Len(opts) THEN [s1 EXCEPT !.exc = TRUE]
             ELSE IF opts[i] \in MenuMode THEN enter_mode(s1, opts[i], e)
             ELSE exit_menu_mode(s1, e)
      ELSE IF m = "WINDOW_SNAP"
        THEN IF i > Len(opts) THEN [s1 EXCEPT !.exc = TRUE]
             ELSE exit_menu_mode(s1, e)
      ELSE IF m = "DISPLAY_MODE"
        THEN IF i > Len(opts) THEN [s1 EXCEPT !.exc = TRUE]
             ELSE exit_menu_mode(show_notification(s1, "display mode set"), e)
      ELSE IF m = "WINDOW_CYCLE"
        THEN IF s1.window_list > 0 /\ s1.submenu_index < s1.window_list /\ e.act_ok
               THEN [s1 EXCEPT !.menu_mode = NORMAL]
               ELSE s1
      ELSE IF m \in ThemeColorModes
        THEN [s1 EXCEPT !.should_save[m] = TRUE, !.menu_mode = "THEME_MENU"]
      ELSE IF m = "DISPLAY_TOGGLE"
        THEN IF s1.submenu_index >= s1.monitors THEN [s1 EXCEPT !.exc = TRUE]
             ELSE update_display(
                    show_notification(
                      [s1 EXCEPT !.monitors = IF e.act_ok THEN e.nmon ELSE @],
                      "monitor toggled"), e)
      ELSE IF m = "CONTEXT_MENU"
        THEN IF s1.context_commands = 0
                  \/ s1.submenu_index >= s1.context_commands
               THEN s1
             ELSE IF e.act_ok
               THEN show_notification(s1, "contextual command executed")
             ELSE show_notification(s1, "contextual command failed")
      ELSE s1

\* MenuStateMachine._is_rotating_clockwise
_is_rotating_clockwise(prev_index, curr_index) ==
  IF curr_index = prev_index + 1 THEN TRUE
  ELSE IF prev_index = WRAP_PREV_INDEX /\ curr_index = 0 THEN TRUE
  ELSE FALSE

\* check_menu_timeout without the conversion to milliseconds: the elapsed
\* seconds are compared with MENU_TIMEOUT_MS.
check_menu_timeout_in_seconds ==
  IF menu_mode = NORMAL THEN FALSE
  ELSE IF menu_timer = None THEN FALSE
  ELSE menu_timer \div 1000 > MENU_TIMEOUT_MS

\* check_menu_timeout with the boundary included: elapsed >= MENU_TIMEOUT_MS.
check_menu_timeout_inclusive ==
  IF menu_mode = NORMAL THEN FALSE
  ELSE IF menu_timer = None THEN FALSE
  ELSE menu_timer >= MENU_TIMEOUT_MS

\* MenuStateMachine.check_menu_timeout
check_menu_timeout ==
  IF menu_mode = NORMAL THEN FALSE
  ELSE IF menu_timer = None THEN FALSE
  ELSE menu_timer > MENU_TIMEOUT_MS

\* handle_rotation with the two NORMAL-mode assignments swapped, so that
\* previous_command receives the new index.
handle_rotation_swapped(s, command_index, e) ==
  IF s.menu_mode = NORMAL
    THEN update_display([s EXCEPT !.current_command = command_index,
                                  !.previous_command = command_index], e)
  ELSE
    LET clockwise == _is_rotating_clockwise(s.last_rotation_index, command_index)
        s1 == [s EXCEPT !.last_rotation_index = command_index]
    IN  IF s1.menu_mode \in mode_handlers
          THEN LET s2 == update_display(on_rotation(s1, s1.menu_mode, clockwise, e), e)
               IN  IF s2.exc THEN s2 ELSE reset_menu_timer(s2)
          ELSE s1

\* handle_rotation without the final reset_menu_timer() of the menu branch.
handle_rotation_without_reset(s, command_index, e) ==
  IF s.menu_mode = NORMAL
    THEN update_display([s EXCEPT !.previous_command = s.current_command,
                                  !.current_command = command_index], e)
  ELSE
    LET clockwise == _is_rotating_clockwise(s.last_rotation_index, command_index)
        s1 == [s EXCEPT !.last_rotation_index = command_index]
    IN  IF s1.menu_mode \in mode_handlers
          THEN update_display(on_rotation(s1, s1.menu_mode, clockwise, e), e)
          ELSE s1

\* MenuStateMachine.handle_rotation
handle_rotation(s, command_index, e) ==
  IF s.menu_mode = NORMAL
    THEN update_display([s EXCEPT !.previous_command = s.current_command,
                                  !.current_command = command_index], e)
  ELSE
    LET clockwise == _is_rotating_clockwise(s.last_rotation_index, command_index)
        s1 == [s EXCEPT !.last_rotation_index = command_index]
    IN  IF s1.menu_mode \in mode_handlers
          THEN LET s2 == update_display(on_rotation(s1, s1.menu_mode, clockwise, e), e)
               IN  IF s2.exc THEN s2 ELSE reset_menu_timer(s2)
          ELSE s1

\* MenuStateMachine._execute_single_click
_execute_single_click(s, e) ==
  LET s1 == [s EXCEPT !.click_count = 0]
  IN  IF s1.menu_mode \in mode_handlers
        THEN LET s2 == update_display(on_press(s1, s1.menu_mode, e), e)
             IN  IF s2.exc THEN s2 ELSE reset_menu_timer(s2)
        ELSE s1

\* handle_press in NORMAL running the command selected before the last
\* rotation (previous_command) instead of the current one.
handle_press_normal_previous(s, e) ==
  LET cmd == CommandRegistry_get(s.previous_command)
  IN  IF cmd = "None" THEN s
      ELSE LET s1 == IF cmd \in MenuMode THEN enter_mode(s, cmd, e) ELSE s
           IN  IF s1.exc
                 THEN show_notification([s1 EXCEPT !.exc = FALSE], "Error")
                 ELSE show_notification(s1, "Executed")

\* MenuStateMachine.handle_press, NORMAL branch: run the selected command.
handle_press_normal(s, e) ==
  LET cmd == CommandRegistry_get(s.current_command)
  IN  IF cmd = "None" THEN s
      ELSE LET s1 == IF cmd \in MenuMode THEN enter_mode(s, cmd, e) ELSE s
           IN  IF s1.exc
                 THEN show_notification([s1 EXCEPT !.exc = FALSE], "Error")
                 ELSE show_notification(s1, "Executed")

\* handle_double_tap without its mode test: NORMAL is entered from every
\* mode, NORMAL included.
handle_double_tap_unguarded(s, e) ==
  show_notification(enter_mode(s, NORMAL, e), "Returned to Normal Mode")

\* MenuStateMachine.handle_double_tap
handle_double_tap(s, e) ==
  IF s.menu_mode # NORMAL THEN exit_menu_mode(s, e) ELSE s

\* handle_long_press counted as activity: it restarts the inactivity timer.
handle_long_press_as_activity(s) == reset_menu_timer(s)

\* handle_long_press ending the click sequence in progress: click_count is
\* cleared.
handle_long_press_clearing_clicks(s) == [s EXCEPT !.click_count = 0]

\* MenuStateMachine.handle_long_press
handle_long_press(s) == s


\* ------------------------------------------------------------------------
\* Linear controls: system volume, strip gain, brightness
\* ------------------------------------------------------------------------
RECURSIVE Float32Exponent(_, _)
\* The exponent k >= from for which percent / 100 = m / 2^k with a 24-bit
\* significand m (2^23 <= m < 2^24), 1 <= percent <= 100.
Float32Exponent(percent, from) ==
  IF percent * 2^from >= 100 * 2^23 THEN from
  ELSE Float32Exponent(percent, from + 1)

\* interface.SetMasterVolumeLevelScalar(percent / 100, None): the scalar the
\* endpoint keeps, a single-precision float, as m / 2^k.
SetMasterVolumeLevelScalar(percent) ==
  IF percent = 0 THEN [m |-> 0, k |-> 0]
  ELSE LET k == Float32Exponent(percent, 23)
       IN  [m |-> (percent * 2^k + 50) \div 100, k |-> k]

\* VolumeControl.get_volume: int(volume * 100)
get_volume(lv) == (lv.volume.m * 100) \div 2^(lv.volume.k)

\* VolumeControl.set_volume
set_volume(lv, percent) ==
  [lv EXCEPT !.volume = SetMasterVolumeLevelScalar(Max(0, Min(100, percent)))]

\* VolumeControl.adjust_volume
adjust_volume(lv, delta) == set_volume(lv, get_volume(lv) + delta)

\* VoicemeeterController.get_strip_gain
get_strip_gain(lv) == lv.gain

\* VoicemeeterController.set_strip_gain
set_strip_gain(lv, gain_db) ==
  [lv EXCEPT !.gain = Max(GAIN_MIN, Min(GAIN_MAX, gain_db))]

\* VoicemeeterController.adjust_strip_gain
adjust_strip_gain(lv, delta_db) ==
  set_strip_gain(lv, Max(GAIN_MIN, Min(GAIN_MAX, get_strip_gain(lv) + delta_db)))

\* DisplayManager.get_brightness
get_brightness(lv) == lv.brightness

\* DisplayManager.set_brightness, the WMI call succeeding
set_brightness(lv, brightness) ==
  [lv EXCEPT !.brightness = Max(0, Min(100, brightness))]

\* DisplayManager.adjust_brightness
adjust_brightness(lv, delta) ==
  set_brightness(lv, Max(0, Min(100, get_brightness(lv) + delta)))

\* The modes of the linear controls.
GainModes == {"VM_MIC", "VM_MUSIC_GAIN", "VM_COMM_GAIN"}
LevelModes == {"VOLUME", "DISPLAY_BRIGHTNESS"} \cup GainModes

\* on_rotation of VolumeModeHandler, VMMicHandler / VMGainHandler and
\* BrightnessControlHandler, on the devices.
level_on_rotation(lv, m, clockwise) ==
  LET sign == IF clockwise THEN 1 ELSE -1
  IN  CASE m = "VOLUME"             -> adjust_volume(lv, sign * VOLUME_STEP)
        [] m \in GainModes          -> adjust_strip_gain(lv, sign * GAIN_STEP)
        [] m = "DISPLAY_BRIGHTNESS" -> adjust_brightness(lv, sign * BRIGHTNESS_STEP)
        [] OTHER                    -> lv

\* on_press of the same handlers: toggle mute, toggle the microphone's mute,
\* reset the gain to 0 dB, reset the brightness to 50 %.
level_on_press(lv, m) ==
  CASE m \in {"VOLUME", "VM_MIC"} -> [lv EXCEPT !.muted = ~@]
    [] m \in GainModes            -> set_strip_gain(lv, 0)
    [] m = "DISPLAY_BRIGHTNESS"   -> set_brightness(lv, BRIGHTNESS_RESET)
    [] OTHER                      -> lv

\* The value the handler of mode m reads and displays.
level_value(lv, m) ==
  CASE m = "VOLUME"             -> get_volume(lv)
    [] m \in GainModes          -> get_strip_gain(lv)
    [] m = "DISPLAY_BRIGHTNESS" -> get_brightness(lv)
    [] OTHER                    -> 0

\* 'progress' of get_display_text as a fraction <<numerator, denominator>>:
\* volume / 100.0, max(0.0, min(1.0, (gain + 60) / 72.0)), brightness / 100.0.
level_progress(lv, m) ==
  CASE m = "VOLUME"             -> <<get_volume(lv), 100>>
    [] m \in GainModes          ->
         <<Max(0, Min(GAIN_SPAN, get_strip_gain(lv) - GAIN_MIN)), GAIN_SPAN>>
    [] m = "DISPLAY_BRIGHTNESS" -> <<get_brightness(lv), 100>>
    [] OTHER                    -> <<0, 1>>

\* The devices as the specifications that do not follow them keep them.
DefaultLevels ==
  [volume |-> SetMasterVolumeLevelScalar(50), muted |-> FALSE, gain |-> 0,
   brightness |-> 50]

\* ------------------------------------------------------------------------
\* Steps
\* ------------------------------------------------------------------------
\* The modes whose handler has had on_exit and no on_enter since, once the
\* calls of `log` have been made on top of `ex`.
RECURSIVE ExitedAfter(_, _)
ExitedAfter(ex, log) ==
  IF log = <<>> THEN ex
  ELSE LET c == Head(log)
       IN  ExitedAfter(IF c[1] = "on_exit" THEN ex \cup {c[2]}
                       ELSE IF c[1] = "on_enter" THEN ex \ {c[2]}
                       ELSE ex,
                       Tail(log))

\* How many calls of `method` the dispatch made.
CountCalls(seq, method) == Cardinality({i \in 1..Len(seq) : seq[i][1] = method})

\* How many times the dispatch entered `mode`.
CountEntered(seq, mode) == Cardinality({i \in 1..Len(seq) : seq[i] = mode})

\* The observer after a step that ran the dispatch `s`; `dispatcher` says
\* whether the step belongs to the poller or the HID thread.
Observe(w, s, dispatcher) ==
  IF w.st = "none" THEN w
  ELSE [w EXCEPT
         !.on_press = Min(2, @ + CountCalls(s.calls, "on_press")),
         !.to_normal = IF w.st = "second"
                         THEN Min(2, @ + CountEntered(s.entered, NORMAL)) ELSE @,
         !.by_dispatcher = @ \/ (dispatcher /\ s.entered # <<>>)]

\* A pending deferred click outlives a mode entry made by the step.
Outlive(tm, s) ==
  IF tm.alive /\ s.entered # <<>> THEN [tm EXCEPT !.stale = TRUE] ELSE tm

\* The step `step` ends with the machine as `s`.
Commit(s, step) ==
  /\ current_command' = s.current_command
  /\ previous_command' = s.previous_command
  /\ menu_mode' = s.menu_mode
  /\ submenu_index' = s.submenu_index
  /\ last_click_time' = s.last_click_time
  /\ click_count' = s.click_count
  /\ last_rotation_index' = s.last_rotation_index
  /\ routing_selection' = s.routing_selection
  /\ menu_timer' = s.menu_timer
  /\ window_list' = s.window_list
  /\ current_idx' = s.current_idx
  /\ should_save' = s.should_save
  /\ monitors' = s.monitors
  /\ context_commands' = s.context_commands
  /\ calls' = s.calls
  /\ exited' = ExitedAfter(exited, s.calls)
  /\ entered' = s.entered
  /\ notes' = s.notes
  /\ shown' = s.shown
  /\ escaped' = s.exc
  /\ last_step' = step

\* hid_reader_loop after a dispatch: an exception leaves the loop (break).
HidAfter(s) == IF s.exc THEN "dead" ELSE "idle"

HidReady == hid_pc = "idle" /\ events_left > 0

\* The environment answers that can matter to a dispatch which may enter
\* the modes in `targets`: windows are enumerated on entering WINDOW_CYCLE,
\* monitors on entering DISPLAY_TOGGLE, contextual commands on entering
\* CONTEXT_MENU, and activate_window / a contextual command's callback is
\* called by a press in WINDOW_CYCLE / CONTEXT_MENU; a press in
\* DISPLAY_TOGGLE that changes a monitor's state enumerates the monitors
\* again.
EnvFor(faults, targets, m) ==
  LET wins == IF "WINDOW_CYCLE" \in targets THEN 0..MaxWindows ELSE {0}
      mons == IF "DISPLAY_TOGGLE" \in targets \cup {m}
                THEN 0..MaxMonitors ELSE {0}
      secs == IF "DISPLAY_TOGGLE" \in targets THEN 0..MaxMonitors ELSE {0}
      ctxs == IF "CONTEXT_MENU" \in targets THEN 0..MaxContextCommands ELSE {0}
      acts == IF m \in {"WINDOW_CYCLE", "CONTEXT_MENU", "DISPLAY_TOGGLE"}
                THEN BOOLEAN ELSE {FALSE}
  IN  {e \in [fault : faults, nwin : wins, nmon : mons,
              first_secondary : secs, act_ok : acts, nctx : ctxs] :
         e.first_secondary <= (IF e.nmon = 0 THEN 0 ELSE e.nmon - 1)}

\* The modes a press handled in mode m may enter.
Targets(m) == {Submenus(m)[i] : i \in 1..Len(Submenus(m))} \cap MenuMode

\* KeychronApp._handle_encoder_event, EVT_ENCODER_CW / EVT_ENCODER_CCW
HidRotate(clockwise) ==
  /\ HidReady
  /\ \E fault \in {"none", "on_rotation", "get_display_text"} :
       LET e == [Quiet EXCEPT !.fault = fault]
           num_items == CommandRegistry_count
           next_index == PyMod(last_command_index + (IF clockwise THEN 1 ELSE -1),
                               num_items)
           s == handle_rotation(Machine, next_index, e)
       IN  /\ Commit(s, "rotation")
           /\ last_command_index' = IF s.exc THEN last_command_index ELSE next_index
           /\ hid_pc' = HidAfter(s)
           /\ single_click_timer' = Outlive(single_click_timer, s)
           /\ watch' = [Observe(watch, s, TRUE) EXCEPT !.quiet = FALSE]
  /\ events_left' = events_left - 1
  /\ UNCHANGED <<registry, hid_local, poll_pc, poll_local>>

\* EVT_ENCODER_PRESS in NORMAL mode: handle_press runs the selected command.
HidPressNormal ==
  /\ HidReady
  /\ menu_mode = NORMAL
  /\ \E e \in EnvFor({"none", "on_enter", "get_display_text"}, {}, NORMAL) :
       LET s == handle_press_normal(Machine, e)
       IN  /\ Commit(s, "press_normal")
           /\ hid_pc' = HidAfter(s)
           /\ single_click_timer' = Outlive(single_click_timer, s)
  /\ watch' = NoWatch
  /\ events_left' = events_left - 1
  /\ UNCHANGED <<registry, last_command_index, hid_local, poll_pc, poll_local>>

\* EVT_ENCODER_PRESS in a menu mode, first half of handle_press: the mode
\* test, current_time = time.time() and time_since_last.
HidPressBegin ==
  /\ HidReady
  /\ menu_mode # NORMAL
  /\ hid_pc' = "handle_press"
  /\ hid_local' = [within |-> last_click_time < DOUBLE_CLICK_MS, age |-> 0,
                  mode |-> menu_mode]
  /\ watch' = IF watch.st = "first" /\ watch.age < DOUBLE_CLICK_MS
                THEN [watch EXCEPT !.st = "second", !.age = 0, !.quiet = FALSE,
                                   !.to_normal = 0]
                ELSE [NoWatch EXCEPT !.st = "first", !.age = 0, !.quiet = TRUE]
  /\ events_left' = events_left - 1
  /\ Commit(Machine, "press_begin")
  /\ UNCHANGED <<registry, single_click_timer,
                 last_command_index, poll_pc, poll_local>>

\* Second half of handle_press in a menu mode: cancel the pending timer,
\* count the click, exit on a double click or schedule the deferred click.
HidPressEnd ==
  /\ hid_pc = "handle_press"
  /\ LET count == IF hid_local.within THEN click_count + 1 ELSE 1
         double == hid_local.within /\ count >= 2
         s == IF double
                THEN exit_menu_mode([Machine EXCEPT !.click_count = 0], Quiet)
                ELSE [Machine EXCEPT !.click_count = count,
                                     !.last_click_time = hid_local.age]
     IN  /\ Commit(s, "press_end")
         /\ single_click_timer' =
              IF ~double /\ count = 1
                THEN [cancel_single_click_timer(single_click_timer) EXCEPT
                        !.ref = TRUE, !.alive = TRUE, !.rem = DOUBLE_CLICK_MS,
                        !.mode = hid_local.mode]
                ELSE cancel_single_click_timer(single_click_timer)
         /\ watch' = LET w == Observe(watch, s, TRUE)
                     IN  IF w.st = "second" THEN [w EXCEPT !.st = "done"]
                         ELSE IF w.st = "first"
                           THEN [w EXCEPT !.on_press = 0, !.by_dispatcher = FALSE]
                         ELSE w
  /\ hid_pc' = "idle"
  /\ UNCHANGED <<registry, last_command_index, hid_local,
                 poll_pc, poll_local, events_left>>

\* EVT_ENCODER_LONG
HidLongPress ==
  /\ HidReady
  /\ Commit(handle_long_press(Machine), "long_press")
  /\ events_left' = events_left - 1
  /\ UNCHANGED <<registry, single_click_timer,
                 last_command_index, hid_pc, hid_local, poll_pc, poll_local, watch>>

\* EVT_ENCODER_DOUBLE
HidDoubleTap ==
  /\ HidReady
  /\ LET s == handle_double_tap(Machine, Quiet)
     IN  /\ Commit(s, "double_tap")
         /\ single_click_timer' = Outlive(single_click_timer, s)
  /\ watch' = NoWatch
  /\ events_left' = events_left - 1
  /\ UNCHANGED <<registry, last_command_index, hid_pc,
                 hid_local, poll_pc, poll_local>>

\* EVT_ENCODER_RELEASE and unknown event types: no branch of
\* _handle_encoder_event matches.
HidOther ==
  /\ HidReady
  /\ Commit(Machine, "other")
  /\ events_left' = events_left - 1
  /\ UNCHANGED <<registry, single_click_timer,
                 last_command_index, hid_pc, hid_local, poll_pc, poll_local, watch>>

\* The threading.Timer thread: the delay has elapsed, run the callback.
TimerFire ==
  /\ single_click_timer.alive
  /\ single_click_timer.rem = 0
  /\ \E e \in EnvFor({"none", "on_press", "on_enter", "get_display_text"},
                     Targets(menu_mode), menu_mode) :
       LET s == _execute_single_click(Machine, e)
       IN  /\ Commit(s, "single_click")
           /\ watch' = Observe(watch, s, FALSE)
  /\ single_click_timer' = [single_click_timer EXCEPT !.alive = FALSE]
  /\ UNCHANGED <<registry, last_command_index, hid_pc,
                 hid_local, poll_pc, poll_local, events_left>>

\* The poll with a check that restarts the inactivity timer whenever it
\* reports a timeout.
PollCheckRestarting ==
  /\ poll_pc = "sleep"
  /\ poll_pc' = IF check_menu_timeout THEN "exit" ELSE "sleep"
  /\ poll_local' = IF check_menu_timeout THEN menu_mode ELSE NORMAL
  /\ menu_timer' = IF check_menu_timeout THEN 0 ELSE menu_timer
  /\ UNCHANGED <<current_command, previous_command, menu_mode, submenu_index,
                 last_click_time, click_count, last_rotation_index,
                 routing_selection, window_list, registry, single_click_timer,
                 last_command_index, current_idx, should_save, monitors,
                 context_commands, hid_pc, hid_local, events_left, calls, exited,
                 entered, notes, shown, last_step, escaped, watch>>

\* timeout_check_loop: wake up and evaluate check_menu_timeout().
PollCheck ==
  /\ poll_pc = "sleep"
  /\ poll_pc' = IF check_menu_timeout THEN "exit" ELSE "sleep"
  /\ poll_local' = IF check_menu_timeout THEN menu_mode ELSE NORMAL
  /\ UNCHANGED <<app_state, registry, single_click_timer,
                 last_command_index, current_idx, should_save, monitors,
                 context_commands, hid_pc, hid_local, events_left, calls, exited,
                 entered, notes, shown, last_step, escaped, watch>>

\* timeout_check_loop: check_menu_timeout() was true, call exit_menu_mode().
PollExit ==
  /\ poll_pc = "exit"
  /\ LET s == exit_menu_mode(Machine, Quiet)
     IN  /\ Commit(s, "poll_exit")
         /\ single_click_timer' = Outlive(single_click_timer, s)
         /\ watch' = Observe(watch, s, TRUE)
  /\ poll_pc' = "sleep"
  /\ poll_local' = NORMAL
  /\ UNCHANGED <<registry, last_command_index, hid_pc,
                 hid_local, events_left>>

\* d milliseconds pass.
TickBy(d) ==
  /\ last_click_time' = Later(last_click_time, d, DOUBLE_CLICK_MS)
  /\ menu_timer' = IF menu_timer = None THEN None
                   ELSE Later(menu_timer, d, MENU_TIMEOUT_MS)
  /\ single_click_timer' =
       IF single_click_timer.alive
         THEN [single_click_timer EXCEPT !.rem = Max(0, @ - d)]
         ELSE single_click_timer
  /\ hid_local' = IF hid_pc = "handle_press"
                    THEN [hid_local EXCEPT
                            !.age = Later(@, d, DOUBLE_CLICK_MS)]
                    ELSE hid_local
  /\ watch' = IF watch.st = "none" THEN watch
              ELSE [watch EXCEPT !.age = Later(@, d, DOUBLE_CLICK_MS)]
  /\ calls' = <<>> /\ entered' = <<>> /\ notes' = <<>> /\ shown' = <<>>
  /\ exited' = exited
  /\ escaped' = FALSE
  /\ last_step' = "tick"
  /\ UNCHANGED <<current_command, previous_command, menu_mode, submenu_index,
                 click_count, last_rotation_index, routing_selection,
                 window_list, registry, last_command_index,
                 current_idx, should_save, monitors, context_commands,
                 hid_pc, poll_pc, poll_local, events_left>>

\* Quantum milliseconds pass.
Tick == TickBy(Quantum)

\* ------------------------------------------------------------------------
\* Specification
\* ------------------------------------------------------------------------
Init ==
  /\ current_command = 0
  /\ previous_command = 0
  /\ menu_mode = NORMAL
  /\ submenu_index = 0
  /\ last_click_time = Sat(DOUBLE_CLICK_MS)
  /\ click_count = 0
  /\ last_rotation_index = 0
  /\ routing_selection = 0
  /\ menu_timer = None
  /\ window_list = 0
  /\ \E vm \in BOOLEAN, plugin \in PluginOutcomes :
       /\ vm_available = vm
       /\ commands = load_plugins(_register_commands(vm), plugin)
       /\ mode_handlers = setup_handlers(vm, plugin)
       /\ plugin_calls = LoadedCalls(FALSE, plugin)
       /\ plugin_handlers = LoadedHandlers(FALSE, plugin)
  /\ setup_pc = "done"
  /\ levels = DefaultLevels
  /\ qt = QtIdle
  /\ gesture = NoGesture
  /\ single_click_timer = NoTimer
  /\ last_command_index = 0
  /\ current_idx = [m \in ThemeColorModes |-> 0]
  /\ should_save = [m \in ThemeColorModes |-> FALSE]
  /\ monitors = 0
  /\ context_commands = 0
  /\ hid_pc = "idle"
  /\ hid_local = [within |-> FALSE, age |-> 0, mode |-> NORMAL]
  /\ poll_pc = "sleep"
  /\ poll_local = NORMAL
  /\ exited = {}
  /\ events_left = MaxEvents
  /\ calls = <<>> /\ entered = <<>> /\ notes = <<>> /\ shown = <<>>
  /\ escaped = FALSE
  /\ last_step = "init"
  /\ watch = NoWatch

Next ==
  \/ HidRotate(TRUE)
  \/ HidRotate(FALSE)
  \/ HidPressNormal
  \/ HidPressBegin
  \/ HidPressEnd
  \/ HidLongPress
  \/ HidDoubleTap
  \/ HidOther
  \/ TimerFire
  \/ PollCheck
  \/ PollExit
  \/ Tick

Spec == Init /\ [][Next]_vars


\* The state after the knob was turned clockwise to command c and pressed
\* there, with the device quiet before and after: the command's action has
\* run, which for a menu command is enter_mode on its mode.  The liveness
\* runs start there with Voicemeeter connected, the setup that registers
\* every built-in command and handler, and with a display_control plugin
\* whose command is registered and whose handlers are not, so that
\* DISPLAY_MENU is a mode without a handler.
Selected(c) ==
  handle_press_normal(
    [current_command |-> c, previous_command |-> Max(0, c - 1),
     menu_mode |-> NORMAL, submenu_index |-> 0,
     last_click_time |-> Sat(DOUBLE_CLICK_MS), click_count |-> 0,
     last_rotation_index |-> 0, routing_selection |-> 0, menu_timer |-> None,
     window_list |-> 0, current_idx |-> [m \in ThemeColorModes |-> 0],
     should_save |-> [m \in ThemeColorModes |-> FALSE], monitors |-> 0,
     context_commands |-> 0,
     calls |-> <<>>, entered |-> <<>>, notes |-> <<>>, shown |-> <<>>,
     exc |-> FALSE], Quiet)

InitLive ==
  /\ \E plugin \in {"handlers_failed"} :
       /\ vm_available = TRUE
       /\ commands = load_plugins(_register_commands(TRUE), plugin)
       /\ mode_handlers = setup_handlers(TRUE, plugin)
       /\ plugin_calls = LoadedCalls(FALSE, plugin)
       /\ plugin_handlers = LoadedHandlers(FALSE, plugin)
  /\ setup_pc = "done"
  /\ levels = DefaultLevels
  /\ qt = QtIdle
  /\ gesture = NoGesture
  /\ \E c \in 0..(Len(commands) - 1) :
       LET s == Selected(c)
       IN  /\ current_command = s.current_command
           /\ previous_command = s.previous_command
           /\ menu_mode = s.menu_mode
           /\ submenu_index = s.submenu_index
           /\ last_click_time = s.last_click_time
           /\ click_count = s.click_count
           /\ last_rotation_index = s.last_rotation_index
           /\ routing_selection = s.routing_selection
           /\ menu_timer = s.menu_timer
           /\ window_list = s.window_list
           /\ current_idx = s.current_idx
           /\ should_save = s.should_save
           /\ monitors = s.monitors
           /\ context_commands = s.context_commands
           /\ calls = s.calls /\ entered = s.entered
           /\ notes = s.notes /\ shown = s.shown
           /\ last_command_index = c
  /\ single_click_timer = NoTimer
  /\ hid_pc = "idle"
  /\ hid_local = [within |-> FALSE, age |-> 0, mode |-> NORMAL]
  /\ poll_pc = "sleep"
  /\ poll_local = NORMAL
  /\ exited = {}
  /\ events_left = MaxLiveEvents
  /\ escaped = FALSE
  /\ last_step = "press_normal"
  /\ watch = NoWatch

\* The threads keep running: time passes and the poller keeps polling.
\* Nothing forces the device to deliver more reports, and nothing is assumed
\* about when the timer thread or the HID thread is scheduled.
Fairness ==
  /\ WF_vars(Tick)
  /\ WF_vars(PollCheck)
  /\ WF_vars(PollExit)

SpecLive == InitLive /\ [][Next]_vars /\ Fairness

\* No further report reaches the state machine.
Silent == events_left = 0 \/ hid_pc = "dead"

\* C5: in a menu mode, once no further input arrives, the poller eventually
\* brings the machine back to NORMAL.
C5_AutoExit == (menu_mode # NORMAL /\ Silent) ~> (menu_mode = NORMAL)

\* The poller has brought the machine back to NORMAL after the last report,
\* from THEME_MENU made active by ThemeColorHandler.on_press assigning it.
C5_Witness ==
  /\ last_step = "poll_exit" /\ menu_mode = NORMAL /\ events_left = 0
  /\ calls = <<<<"on_exit", "THEME_MENU">>>>
  /\ should_save["THEME_BOX"]

\* ------------------------------------------------------------------------
\* Click disambiguation
\* ------------------------------------------------------------------------

\* C1: once the second of two menu presses less than DOUBLE_CLICK_MS apart
\* has been handled, the pair has produced exactly one transition to NORMAL
\* and no handler.on_press call.
C1_DoubleClickExits ==
  watch.st = "done" => watch.to_normal = 1 /\ watch.on_press = 0


\* C2: when the deferred click of a press made in a mode with a handler
\* fires, and no further input has arrived since that press, the press has
\* produced exactly one handler.on_press call and no mode entry by the poller
\* or the HID thread.
C2_SingleClickFires ==
  ( /\ last_step = "single_click"
    /\ watch.st = "first" /\ watch.quiet
    /\ single_click_timer.mode \in mode_handlers )
  => watch.on_press = 1 /\ ~watch.by_dispatcher


\* A step of the timer thread: the pending deferred click runs.
FiresDeferredClick ==
  single_click_timer.alive /\ ~single_click_timer'.alive
    /\ last_step' = "single_click"

\* C3: a deferred click that fires while the active mode is not the mode it
\* was scheduled in calls no handler, refreshes no display and changes no
\* field of the application state.
C3_StaleClickIsNoOp ==
  [][(FiresDeferredClick /\ single_click_timer.mode # menu_mode)
       => (calls' = <<>> /\ shown' = <<>> /\ app_state' = app_state)]_vars


\* C4: no deferred click stays pending across a mode entry: a pending timer
\* was scheduled after the last enter_mode call.
C4_EntryCancelsDeferredClick ==
  single_click_timer.alive => ~single_click_timer.stale


\* ------------------------------------------------------------------------
\* Inactivity timeout
\* ------------------------------------------------------------------------

\* C6: check_menu_timeout() is true exactly when the mode is not NORMAL, a
\* timestamp is stored and more than MENU_TIMEOUT_MS have elapsed since it
\* (false at 5000 ms, true at 5001 ms), and the exit_menu_mode() the poller
\* calls after a true answer leaves the machine in NORMAL.
C6_TimeoutExact ==
  /\ check_menu_timeout <=>
       (menu_mode # NORMAL /\ menu_timer # None /\ menu_timer > MENU_TIMEOUT_MS)
  /\ menu_timer = MENU_TIMEOUT_MS => ~check_menu_timeout
  /\ (menu_mode # NORMAL /\ menu_timer = MENU_TIMEOUT_MS + 1) => check_menu_timeout
  /\ last_step = "poll_exit" => menu_mode = NORMAL

\* The poller found the timeout expired at 5001 ms and its exit_menu_mode()
\* made the transition to NORMAL.
C6_Witness ==
  last_step = "poll_exit" /\ entered = <<NORMAL>> /\ menu_mode = NORMAL


\* ------------------------------------------------------------------------
\* Direction inference: handle_rotation driven with every index of a
\* registry of N commands, N = 1..MaxIndexModulus.
\* ------------------------------------------------------------------------

\* A registry of n commands: the built-in ones in registration order, cut or
\* padded with plain actions to length n.
RegistryOf(n) ==
  [i \in 1..n |-> IF i <= Len(_register_commands(TRUE))
                    THEN _register_commands(TRUE)[i] ELSE "action"]

InitDir ==
  /\ current_command = 0
  /\ previous_command = 0
  /\ menu_mode = NORMAL
  /\ submenu_index = 0
  /\ last_click_time = Sat(DOUBLE_CLICK_MS)
  /\ click_count = 0
  /\ last_rotation_index = 0
  /\ routing_selection = 0
  /\ menu_timer = None
  /\ window_list = 0
  /\ \E n \in 1..MaxIndexModulus : commands = RegistryOf(n)
  /\ mode_handlers = create_handlers(TRUE)
  /\ vm_available = TRUE
  /\ plugin_calls = LoadedCalls(FALSE, "absent")
  /\ plugin_handlers = LoadedHandlers(FALSE, "absent")
  /\ setup_pc = "done"
  /\ levels = DefaultLevels
  /\ qt = QtIdle
  /\ gesture = NoGesture
  /\ single_click_timer = NoTimer
  /\ last_command_index = 0
  /\ current_idx = [m \in ThemeColorModes |-> 0]
  /\ should_save = [m \in ThemeColorModes |-> FALSE]
  /\ monitors = 0
  /\ context_commands = 0
  /\ hid_pc = "idle"
  /\ hid_local = [within |-> FALSE, age |-> 0, mode |-> NORMAL]
  /\ poll_pc = "sleep"
  /\ poll_local = NORMAL
  /\ exited = {}
  /\ events_left = 0
  /\ calls = <<>> /\ entered = <<>> /\ notes = <<>> /\ shown = <<>>
  /\ escaped = FALSE
  /\ last_step = "init"
  /\ watch = NoWatch

\* handle_rotation(i) for any index i of the registry; last_command_index
\* keeps the index passed, as the callers do.
DirRotate ==
  /\ \E i \in 0..(CommandRegistry_count - 1) :
       /\ Commit(handle_rotation(Machine, i, Quiet), "rotation")
       /\ last_command_index' = i
  /\ UNCHANGED <<registry, single_click_timer, hid_pc,
                 hid_local, poll_pc, poll_local, events_left, watch>>

\* handle_press() in NORMAL mode: the selected command runs.
DirSelect ==
  /\ menu_mode = NORMAL
  /\ Commit(handle_press_normal(Machine, Quiet), "press_normal")
  /\ UNCHANGED <<registry, single_click_timer,
                 last_command_index, hid_pc, hid_local, poll_pc, poll_local, events_left,
                 watch>>

\* handle_double_tap(): back to NORMAL.
DirBack ==
  /\ menu_mode # NORMAL
  /\ Commit(handle_double_tap(Machine, Quiet), "double_tap")
  /\ UNCHANGED <<registry, single_click_timer,
                 last_command_index, hid_pc, hid_local, poll_pc, poll_local, events_left,
                 watch>>

NextDir == DirRotate \/ DirSelect \/ DirBack

SpecDir == InitDir /\ [][NextDir]_vars

\* A step in which handle_rotation delegated to a handler's on_rotation.
Delegated ==
  /\ last_step' = "rotation"
  /\ menu_mode # NORMAL
  /\ calls' # <<>>
  /\ calls'[1][1] = "on_rotation"

\* C7: with N >= 2 registered commands, the step from index p to index c is
\* classified clockwise exactly when c = (p + 1) mod N.
C7_DirectionInference ==
  [][(Delegated /\ CommandRegistry_count >= 2) =>
       (calls'[1][3] <=>
          last_rotation_index' = (last_rotation_index + 1) % CommandRegistry_count)]_vars


\* ------------------------------------------------------------------------
\* Rotation
\* ------------------------------------------------------------------------

\* The HID thread dispatched a rotation report.
Rotated == last_step' = "rotation" /\ events_left' = events_left - 1

\* C8: a rotation handled in NORMAL mode sets current_command to the index
\* passed, keeps the old value in previous_command, calls no handler, and
\* leaves the mode, last_rotation_index, click_count, submenu_index and the
\* inactivity timestamp as they were.
C8_NormalRotationSelects ==
  [][(Rotated /\ menu_mode = NORMAL) =>
       /\ current_command' = last_command_index'
       /\ previous_command' = current_command
       /\ calls' = <<>>
       /\ UNCHANGED <<menu_mode, last_rotation_index, click_count,
                      submenu_index, menu_timer>>]_vars

\* A NORMAL-mode rotation has moved the selection from command 0 to command
\* 3 in one step, the synthesized index having advanced inside a menu.
C8_Witness ==
  /\ last_step = "rotation" /\ menu_mode = NORMAL
  /\ previous_command = 0 /\ current_command = 3

\* C9: in a submenu selector with K options, a clockwise report moves
\* submenu_index by +1 mod K and a counter-clockwise report by -1 mod K.
C9_CarouselFollowsKnob ==
  [][(Rotated /\ menu_mode \in SelectorModes \cap mode_handlers /\ ~escaped') =>
       submenu_index' =
         PyMod(submenu_index
                 + (IF last_command_index'
                         = PyMod(last_command_index + 1, CommandRegistry_count)
                      THEN 1 ELSE -1),
               Len(Submenus(menu_mode)))]_vars

\* ------------------------------------------------------------------------
\* Handler exceptions
\* ------------------------------------------------------------------------

\* C10: no handler exception escapes a dispatch, and the HID reader loop
\* keeps running.
C10_HandlerFaultContained == ~escaped /\ hid_pc # "dead"


\* The HID thread dispatched a press in NORMAL mode.
PressedInNormal == last_step' = "press_normal" /\ events_left' = events_left - 1

\* C11: when the action of the selected command raises during a NORMAL-mode
\* press, exactly one error notification is emitted, no "Executed" one, and
\* no field of the application state changes.
C11_FailedActionLeavesState ==
  [][(PressedInNormal /\ CountEntered(notes', "Error") > 0) =>
       (notes' = <<"Error">> /\ app_state' = app_state)]_vars


\* ------------------------------------------------------------------------
\* Threads
\* ------------------------------------------------------------------------

\* C12: the deferred-click callback and the poller's exit_menu_mode never
\* run while the HID thread is inside handle_press.
C12_SingleMutator ==
  last_step \in {"single_click", "poll_exit"} => hid_pc # "handle_press"


\* ------------------------------------------------------------------------
\* Mode transitions
\* ------------------------------------------------------------------------

\* The state machine driven through its methods directly: at most
\* MaxApiCalls calls of enter_mode(m), for any mode m whatever mode is
\* active, and handle_rotation(i), for any index i of the registry.
InitApi ==
  /\ current_command = 0
  /\ previous_command = 0
  /\ menu_mode = NORMAL
  /\ submenu_index = 0
  /\ last_click_time = Sat(DOUBLE_CLICK_MS)
  /\ click_count = 0
  /\ last_rotation_index = 0
  /\ routing_selection = 0
  /\ menu_timer = None
  /\ window_list = 0
  /\ \E vm \in BOOLEAN, ctx \in BOOLEAN, plugin \in PluginOutcomes :
       /\ vm_available = vm
       /\ commands = load_plugins(load_context_commands(_register_commands(vm), ctx),
                                  plugin)
       /\ mode_handlers = setup_handlers(vm, plugin) \cup context_handlers(ctx)
       /\ plugin_calls = LoadedCalls(ctx, plugin)
       /\ plugin_handlers = LoadedHandlers(ctx, plugin)
  /\ setup_pc = "done"
  /\ levels = DefaultLevels
  /\ qt = QtIdle
  /\ gesture = NoGesture
  /\ single_click_timer = NoTimer
  /\ last_command_index = 0
  /\ current_idx = [m \in ThemeColorModes |-> 0]
  /\ should_save = [m \in ThemeColorModes |-> FALSE]
  /\ monitors = 0
  /\ context_commands = 0
  /\ hid_pc = "idle"
  /\ hid_local = [within |-> FALSE, age |-> 0, mode |-> NORMAL]
  /\ poll_pc = "sleep"
  /\ poll_local = NORMAL
  /\ exited = {}
  /\ events_left = MaxApiCalls
  /\ calls = <<>> /\ entered = <<>> /\ notes = <<>> /\ shown = <<>>
  /\ escaped = FALSE
  /\ last_step = "init"
  /\ watch = NoWatch

ApiEnter ==
  /\ events_left > 0
  /\ \E m \in MenuMode :
       \E e \in EnvFor({"none"}, {m}, NORMAL) :
         Commit(enter_mode(Machine, m, e), "enter_mode")
  /\ events_left' = events_left - 1
  /\ UNCHANGED <<registry, single_click_timer,
                 last_command_index, hid_pc, hid_local, poll_pc, poll_local, watch>>

ApiRotate ==
  /\ events_left > 0
  /\ \E i \in 0..(CommandRegistry_count - 1) :
       /\ Commit(handle_rotation(Machine, i, Quiet), "rotation")
       /\ last_command_index' = i
  /\ events_left' = events_left - 1
  /\ UNCHANGED <<registry, single_click_timer, hid_pc,
                 hid_local, poll_pc, poll_local, watch>>

\* _execute_single_click called directly in a menu mode.
ApiPress ==
  /\ events_left > 0
  /\ menu_mode # NORMAL
  /\ \E e \in EnvFor({"none"}, Targets(menu_mode), menu_mode) :
       Commit(_execute_single_click(Machine, e), "single_click")
  /\ events_left' = events_left - 1
  /\ UNCHANGED <<registry, single_click_timer,
                 last_command_index, hid_pc, hid_local, poll_pc, poll_local, watch>>

NextApi == ApiEnter \/ ApiRotate \/ ApiPress

SpecApi == InitApi /\ [][NextApi]_vars

\* enter_mode was called once, directly, as a step of its own.
Entered == last_step' = "enter_mode" /\ Len(entered') = 1

\* C13: enter_mode(X) while X, a mode with a handler, is already active
\* calls X's on_exit and then X's on_enter, once each, and resets
\* submenu_index, click_count, last_rotation_index and the inactivity
\* timestamp.  (DISPLAY_MODE and DISPLAY_TOGGLE preselect an option on
\* entry; for them no value of submenu_index is required here.)
C13_ReentryResets ==
  [][(Entered /\ entered'[1] = menu_mode /\ menu_mode \in mode_handlers) =>
       /\ Len(calls') >= 2
       /\ calls'[1] = <<"on_exit", menu_mode>>
       /\ calls'[2] = <<"on_enter", menu_mode>>
       /\ CountCalls(calls', "on_exit") = 1
       /\ CountCalls(calls', "on_enter") = 1
       /\ (menu_mode \notin {"DISPLAY_MODE", "DISPLAY_TOGGLE"}
             => submenu_index' = 0)
       /\ click_count' = 0
       /\ last_rotation_index' = 0
       /\ menu_timer' = 0]_vars

\* The display refreshes a step emitted: payloads handed to the overlay, and
\* notifications of the selected command's name (update_display in NORMAL).
Refreshes(log) ==
  Cardinality({i \in 1..Len(log) :
                 \E k \in 1..Len(commands) : log[i] = commands[k]})

ApiEntered == last_step' = "enter_mode"

\* C14: one enter_mode(m) call, from any state, for NORMAL or a mode with a
\* registered handler: the handler of the mode being
\* left gets on_exit first, while that mode is still the active one; then m's
\* handler gets on_enter; click_count, last_rotation_index and the
\* inactivity stamp are reset; exactly one display refresh is emitted, and
\* nothing is emitted after it; the active mode on return is m unless
\* on_enter started a further transition.
C14_EnterModeOrder ==
  [][(ApiEntered /\ entered'[1] \in mode_handlers \cup {NORMAL}) =>
       LET m == entered'[1]
           left == IF menu_mode \in mode_handlers THEN 1 ELSE 0
           refreshes == Len(shown') + Refreshes(notes')
       IN  /\ (left = 1 => calls'[1] = <<"on_exit", menu_mode>>)
           /\ (m \in mode_handlers => calls'[left + 1] = <<"on_enter", m>>)
           /\ click_count' = 0
           /\ last_rotation_index' = 0
           /\ menu_timer' = 0
           /\ refreshes = 1
           /\ (Len(shown') = 1 => calls'[Len(calls')][1] = "get_display_text")
           /\ (Len(shown') = 0 => Refreshes(<<notes'[Len(notes')]>>) = 1)
           /\ (Len(entered') = 1 => menu_mode' = m)]_vars

\* ------------------------------------------------------------------------
\* Native double tap
\* ------------------------------------------------------------------------
DoubleTapped == last_step' = "double_tap" /\ events_left' = events_left - 1

hid_reader_loop(n, marked) ==
  IF n = 0 THEN "skip"
  ELSE IF marked
    THEN IF n < MinReportLen THEN "raise" ELSE "emit"
  ELSE "skip"

\* HIDReaderThread._process_hid_data (run() skips an empty read)
_process_hid_data(n, marked) ==
  IF n = 0 THEN "skip"
  ELSE IF n < MinReportLen THEN "skip"
  ELSE IF ~marked THEN "skip"
  ELSE "emit"

Readers == {"hid_reader_loop", "_process_hid_data"}

Parse(reader, n, marked) ==
  IF reader = "hid_reader_loop" THEN hid_reader_loop(n, marked)
  ELSE _process_hid_data(n, marked)

\* A report that is too short or does not start with the marker.
Malformed(n, marked) == n < MinReportLen \/ ~marked

\* A reader receives a malformed report: it skips it, or the exception
\* leaves the loop (`break` in hid_reader_loop).
HidMalformed ==
  /\ HidReady
  /\ \E reader \in Readers, n \in 1..MaxReportLen, marked \in BOOLEAN :
       /\ Malformed(n, marked)
       /\ LET outcome == Parse(reader, n, marked)
              s == [Machine EXCEPT !.exc = (outcome = "raise")]
          IN  /\ outcome # "emit"
              /\ Commit(s, "malformed")
              /\ hid_pc' = HidAfter(s)
  /\ events_left' = events_left - 1
  /\ UNCHANGED <<registry, single_click_timer,
                 last_command_index, hid_local, poll_pc, poll_local, watch>>

NextReports == Next \/ HidMalformed

SpecReports == Init /\ [][NextReports]_vars

\* C16: a report shorter than MinReportLen bytes, or not starting with the
\* event marker, changes no state, reaches no handler, emits nothing, raises
\* nothing, and leaves the reader reading.
C16_MalformedDiscarded ==
  [][(last_step' = "malformed" /\ events_left' = events_left - 1) =>
       /\ app_state' = app_state
       /\ calls' = <<>> /\ entered' = <<>> /\ notes' = <<>> /\ shown' = <<>>
       /\ ~escaped'
       /\ hid_pc' = "idle"]_vars

\* ------------------------------------------------------------------------
\* Option indexes
\* ------------------------------------------------------------------------
\* The modes whose handler uses submenu_index as an index into its options.
IndexedModes == SelectorModes \cup {"WINDOW_CYCLE", "DISPLAY_TOGGLE", "CONTEXT_MENU"}

\* The number of options the handler of mode m has at present.
OptionCount(m) ==
  CASE m \in SelectorModes  -> Len(Submenus(m))
    [] m = "WINDOW_CYCLE"   -> window_list
    [] m = "DISPLAY_TOGGLE" -> monitors
    [] m = "CONTEXT_MENU"   -> context_commands
    [] OTHER                -> 0

\* C17: while a mode whose handler indexes its options by submenu_index is
\* active and has at least one option, 0 <= submenu_index < the handler's
\* current option count, also after the option list changed size.  (With no
\* option at all no index is in range: submenu_index is 0 then.)
C17_IndexInBounds ==
  (menu_mode \in IndexedModes \cap mode_handlers /\ OptionCount(menu_mode) > 0) =>
     (0 <= submenu_index /\ submenu_index < OptionCount(menu_mode))

\* ------------------------------------------------------------------------
\* Timeout tracking
\* ------------------------------------------------------------------------
\* C18: while the active mode is NORMAL, menu_timer holds no time stamp and
\* check_menu_timeout() is false.
C18_NoTimerInNormal ==
  menu_mode = NORMAL => (menu_timer = None /\ ~check_menu_timeout)

\* ------------------------------------------------------------------------
\* Voicemeeter unavailable
\* ------------------------------------------------------------------------
\* C19: when Voicemeeter was not available at setup, no command enters
\* VOICEMEETER_MENU, no handler of VOICEMEETER_MENU or of a VM_* mode is
\* registered, and none of these modes is ever the active mode.
C19_NoVoicemeeterModes ==
  ~vm_available =>
     /\ \A i \in 1..Len(commands) : commands[i] \notin VMModes
     /\ mode_handlers \cap VMModes = {}
     /\ menu_mode \notin VMModes

\* Without Voicemeeter the second command is 'Media Controls': pressing it
\* has entered MEDIA.
C19_Witness ==
  /\ ~vm_available
  /\ last_step = "press_normal"
  /\ current_command = 1
  /\ menu_mode = "MEDIA"

\* ------------------------------------------------------------------------
\* Setup
\* ------------------------------------------------------------------------
\* KeychronApp.run from the start: setup() step by step, then the threads.
\* setup_pc names the next step of setup; hid_pc and poll_pc are "unstarted"
\* until run() has started the two threads.
SetupOutcomes == PluginOutcomes \cup {"commands_failed"}

NoCalls == [p \in Plugins |-> CallsOf("absent")]

InitSetup ==
  /\ current_command = 0
  /\ previous_command = 0
  /\ menu_mode = NORMAL
  /\ submenu_index = 0
  /\ last_click_time = Sat(DOUBLE_CLICK_MS)
  /\ click_count = 0
  /\ last_rotation_index = 0
  /\ routing_selection = 0
  /\ menu_timer = None
  /\ window_list = 0
  /\ vm_available = FALSE
  /\ commands = <<>>
  /\ mode_handlers = {}
  /\ plugin_calls = NoCalls
  /\ plugin_handlers = {}
  /\ setup_pc = "connect"
  /\ levels = DefaultLevels
  /\ qt = QtIdle
  /\ gesture = NoGesture
  /\ single_click_timer = NoTimer
  /\ last_command_index = 0
  /\ current_idx = [m \in ThemeColorModes |-> 0]
  /\ should_save = [m \in ThemeColorModes |-> FALSE]
  /\ monitors = 0
  /\ context_commands = 0
  /\ hid_pc = "unstarted"
  /\ hid_local = [within |-> FALSE, age |-> 0, mode |-> NORMAL]
  /\ poll_pc = "unstarted"
  /\ poll_local = NORMAL
  /\ exited = {}
  /\ events_left = MaxSetupEvents
  /\ calls = <<>> /\ entered = <<>> /\ notes = <<>> /\ shown = <<>>
  /\ escaped = FALSE
  /\ last_step = "init"
  /\ watch = NoWatch

\* What a step of setup leaves alone.
SetupFrame ==
  UNCHANGED <<app_state, single_click_timer, last_command_index, current_idx,
              should_save, monitors, context_commands, levels, qt, gesture,
              hid_local,
              events_left,
              calls, exited, entered, notes, shown, last_step, escaped, watch>>

\* setup: self.vm.connect()
SetupConnect ==
  /\ setup_pc = "connect"
  /\ vm_available' \in BOOLEAN
  /\ setup_pc' = "register_commands"
  /\ UNCHANGED <<commands, mode_handlers, plugin_calls, plugin_handlers,
                 hid_pc, poll_pc, poll_local>>
  /\ SetupFrame

\* setup: self._register_commands()
SetupRegisterCommands ==
  /\ setup_pc = "register_commands"
  /\ commands' = commands \o _register_commands(vm_available)
  /\ setup_pc' = "load_context_commands"
  /\ UNCHANGED <<vm_available, mode_handlers, plugin_calls, plugin_handlers,
                 hid_pc, poll_pc, poll_local>>
  /\ SetupFrame

\* load_plugins, one pass of its loop: module context_commands
SetupLoadContextCommands ==
  /\ setup_pc = "load_context_commands"
  /\ \E outcome \in SetupOutcomes :
       /\ commands' = load_context_commands(
                          commands, outcome \in {"ok", "handlers_failed"})
       /\ plugin_handlers' = plugin_handlers \cup context_handlers(outcome = "ok")
       /\ plugin_calls' =
            [plugin_calls EXCEPT
               !["context_commands"] =
                  [present |-> outcome # "absent",
                   get_commands |-> @.get_commands + CallsOf(outcome).get_commands,
                   get_mode_handlers |->
                     @.get_mode_handlers + CallsOf(outcome).get_mode_handlers]]
  /\ setup_pc' = "load_display_control"
  /\ UNCHANGED <<vm_available, mode_handlers, hid_pc, poll_pc, poll_local>>
  /\ SetupFrame

\* load_plugins, one pass of its loop: module display_control
SetupLoadDisplayControl ==
  /\ setup_pc = "load_display_control"
  /\ \E outcome \in SetupOutcomes :
       /\ commands' = load_plugins(commands, outcome)
       /\ plugin_handlers' =
            plugin_handlers \cup (IF outcome = "ok" THEN DisplayModes ELSE {})
       /\ plugin_calls' =
            [plugin_calls EXCEPT
               !["display_control"] =
                  [present |-> outcome # "absent",
                   get_commands |-> @.get_commands + CallsOf(outcome).get_commands,
                   get_mode_handlers |->
                     @.get_mode_handlers + CallsOf(outcome).get_mode_handlers]]
  /\ setup_pc' = "register_handlers"
  /\ UNCHANGED <<vm_available, mode_handlers, hid_pc, poll_pc, poll_local>>
  /\ SetupFrame

\* setup: create_handlers and the two register_mode_handler loops
SetupRegisterHandlers ==
  /\ setup_pc = "register_handlers"
  /\ mode_handlers' = mode_handlers \cup create_handlers(vm_available)
                                    \cup plugin_handlers
  /\ setup_pc' = "start_threads"
  /\ UNCHANGED <<vm_available, commands, plugin_calls, plugin_handlers,
                 hid_pc, poll_pc, poll_local>>
  /\ SetupFrame

\* run() starting both threads before setup() has registered the handlers.
CanStartThreadsEarly == setup_pc \in {"register_handlers", "start_threads"}

\* run(): setup() has returned True.
CanStartThreads == setup_pc = "start_threads"

\* run: connect_hid(), then start the HID reader and the timeout poller.
StartThreads ==
  /\ CanStartThreads
  /\ hid_pc = "unstarted"
  /\ hid_pc' = "idle"
  /\ poll_pc' = "sleep"
  /\ poll_local' = poll_local
  /\ setup_pc' = IF setup_pc = "start_threads" THEN "done" ELSE setup_pc
  /\ UNCHANGED <<vm_available, commands, mode_handlers, plugin_calls,
                 plugin_handlers>>
  /\ SetupFrame

NextSetup ==
  \/ SetupConnect
  \/ SetupRegisterCommands
  \/ SetupLoadContextCommands
  \/ SetupLoadDisplayControl
  \/ SetupRegisterHandlers
  \/ StartThreads
  \/ Next

SpecSetup == InitSetup /\ [][NextSetup]_vars

\* A thread of run() is running: events may reach the state machine.
Started == hid_pc # "unstarted" \/ poll_pc # "unstarted"

\* Every module that is present had both entry points called once.
EachCalledOnce ==
  \A p \in Plugins :
     plugin_calls[p].present =>
        plugin_calls[p].get_commands = 1 /\ plugin_calls[p].get_mode_handlers = 1

\* Every module that is present had get_commands called once, and
\* get_mode_handlers once or - when loading it failed - not at all.
EachCalledAtMostOnce ==
  \A p \in Plugins :
     plugin_calls[p].present =>
        plugin_calls[p].get_commands = 1 /\ plugin_calls[p].get_mode_handlers <= 1

\* Once a thread runs, setup is over and the registry, the handler table and
\* the call counts never change again.
RegistryFinal ==
  /\ [](Started => setup_pc = "done")
  /\ [][Started => (commands' = commands /\ mode_handlers' = mode_handlers
                     /\ plugin_calls' = plugin_calls)]_vars

RestartsTimer ==
  \/ last_step' = "rotation" /\ CountCalls(calls', "on_rotation") > 0
  \/ last_step' = "single_click"
  \/ entered' # <<>>

\* C21: check_menu_timeout(), once true, stays true across every step that
\* is not a delegated rotation, an executed single click or a mode entry;
\* and time passing without a poll changes no field but the elapsed times.
C21_LevelTriggered ==
  [][/\ (check_menu_timeout /\ ~RestartsTimer) => check_menu_timeout'
     /\ (check_menu_timeout /\ last_step' = "tick") =>
           /\ check_menu_timeout'
           /\ UNCHANGED <<current_command, previous_command, menu_mode,
                          submenu_index, click_count, last_rotation_index,
                          routing_selection, window_list>>]_vars

\* The timer had expired, no poll has acted on it, and a press counted as a
\* first click has been handled since: the check is still true.
C21_Witness ==
  /\ check_menu_timeout /\ poll_pc = "sleep"
  /\ last_step = "press_end" /\ click_count = 1 /\ single_click_timer.alive

\* ------------------------------------------------------------------------
\* Presses on a clock finer than the debounce window
\* ------------------------------------------------------------------------
\* The HID thread handling presses and the timer thread, with time passing
\* in steps of ClickQuantum ms.
NextClicks ==
  \/ HidPressNormal
  \/ HidPressBegin
  \/ HidPressEnd
  \/ TimerFire
  \/ TickBy(ClickQuantum)

SpecClicks == Init /\ [][NextClicks]_vars

\* handle_press has finished handling a press made in a menu mode.
PressedInMenu == hid_pc = "handle_press" /\ last_step' = "press_end"

\* C22: every press handled in a menu mode leaves last_click_time at the
\* time of that press (the time handle_press read on entry), also when the
\* press completes a double click and exits to NORMAL.
C22_ClickTimeUpdated ==
  [][PressedInMenu => last_click_time' = hid_local.age]_vars

\* ------------------------------------------------------------------------
\* handle_rotation and handle_press called with any index selected
\* ------------------------------------------------------------------------
\* handle_rotation(i) called directly, with i also just outside the registry.
CmdSelect ==
  /\ events_left > 0
  /\ \E i \in (-1)..CommandRegistry_count :
       Commit(handle_rotation(Machine, i, Quiet), "rotation")
  /\ events_left' = events_left - 1
  /\ UNCHANGED <<registry, single_click_timer, last_command_index, hid_pc,
                 hid_local, poll_pc, poll_local, watch>>

\* handle_press() called directly in NORMAL.
CmdPress ==
  /\ events_left > 0
  /\ menu_mode = NORMAL
  /\ \E e \in EnvFor({"none", "on_enter", "get_display_text"},
                     {CommandRegistry_get(current_command)}, NORMAL) :
       Commit(handle_press_normal(Machine, e), "press_normal")
  /\ events_left' = events_left - 1
  /\ UNCHANGED <<registry, single_click_timer, last_command_index, hid_pc,
                 hid_local, poll_pc, poll_local, watch>>

\* handle_double_tap() called directly.
CmdBack ==
  /\ events_left > 0
  /\ Commit(handle_double_tap(Machine, Quiet), "double_tap")
  /\ events_left' = events_left - 1
  /\ UNCHANGED <<registry, single_click_timer, last_command_index, hid_pc,
                 hid_local, poll_pc, poll_local, watch>>

NextCommands == CmdSelect \/ CmdPress \/ CmdBack

SpecCommands == InitApi /\ [][NextCommands]_vars

\* A handler method called during the dispatch s raised.
Raised(s, e) == \E i \in 1..Len(s.calls) : s.calls[i][1] = e.fault

\* The application state of the dispatch s is the current one.
SameAppState(s) ==
  <<s.current_command, s.previous_command, s.menu_mode, s.submenu_index,
    s.last_click_time, s.click_count, s.last_rotation_index,
    s.routing_selection, s.menu_timer, s.window_list>> = app_state

\* C23: a press handled in NORMAL runs the action of the command at
\* current_command once (for a menu command: one enter_mode of its mode, made
\* first), leaves last_click_time alone and click_count and the mode too
\* unless the action entered a mode, and ends with the "Executed"
\* notification when no handler raised (with the error one otherwise); if
\* current_command indexes no command, nothing is called, shown or changed.
C23_NormalPressRunsCommand ==
  menu_mode = NORMAL =>
    \A e \in EnvFor({"none", "on_enter", "get_display_text"},
                    {CommandRegistry_get(current_command)}, NORMAL) :
      LET s == handle_press_normal(Machine, e)
          cmd == CommandRegistry_get(current_command)
      IN  /\ s.last_click_time = last_click_time
          /\ ~s.exc
          /\ IF cmd = "None"
                THEN /\ SameAppState(s)
                     /\ s.calls = <<>> /\ s.entered = <<>>
                     /\ s.notes = <<>> /\ s.shown = <<>>
                ELSE /\ s.notes # <<>>
                     /\ s.notes[Len(s.notes)] =
                          (IF Raised(s, e) THEN "Error" ELSE "Executed")
                     /\ CountEntered(s.notes, "Executed")
                          + CountEntered(s.notes, "Error") = 1
                     /\ IF cmd \in MenuMode
                          THEN /\ s.entered # <<>> /\ s.entered[1] = cmd
                               /\ \A i \in 2..Len(s.entered) :
                                    s.entered[i] = NORMAL
                          ELSE /\ s.entered = <<>> /\ s.calls = <<>>
                               /\ SameAppState(s)

\* A press in NORMAL on 'Theme Selector', reached by a rotation from
\* another command, has entered THEME_MENU and reported "Executed".
C23_Witness ==
  /\ last_step = "press_normal" /\ menu_mode = "THEME_MENU"
  /\ entered = <<"THEME_MENU">>
  /\ CommandRegistry_get(current_command) = "THEME_MENU"
  /\ previous_command # current_command
  /\ notes = <<"Executed">>

\* ------------------------------------------------------------------------
\* Who changes the active mode
\* ------------------------------------------------------------------------
\* The dispatch logged a call of `method` on the handler of mode m.
Called(log, method, m) ==
  \E i \in 1..Len(log) : log[i][1] = method /\ log[i][2] = m

\* C24: every change of menu_mode is made by enter_mode: the step called
\* enter_mode, on_exit of the handler left and on_enter of the handler
\* entered (where the mode has one), and click_count, last_rotation_index and
\* the inactivity timestamp are reset.
C24_ModeChangesInEnterMode ==
  [][menu_mode' # menu_mode =>
       /\ entered' # <<>>
       /\ menu_mode \in mode_handlers => Called(calls', "on_exit", menu_mode)
       /\ menu_mode' \in mode_handlers => Called(calls', "on_enter", menu_mode')
       /\ click_count' = 0
       /\ last_rotation_index' = 0
       /\ menu_timer' = 0]_vars

\* C25: the cached window list is empty whenever the active mode is not
\* WINDOW_CYCLE.
C25_WindowListScoped == menu_mode # "WINDOW_CYCLE" => window_list = 0

\* ------------------------------------------------------------------------
\* The three slots of a carousel display
\* ------------------------------------------------------------------------
\* The modes whose option list is built at run time; their handlers treat
\* an empty list and a list of one specially.
ListedModes == {"WINDOW_CYCLE", "DISPLAY_TOGGLE", "CONTEXT_MENU"}

\* The 'left' / 'center' / 'right' entries of the dictionary that
\* get_display_text of mode m's handler returns, each as <<j>> for the label
\* of option j or <<>> for a text that is no option's label ('' or a
\* warning).
display_slots(s, m) ==
  LET total == CASE m \in SelectorModes  -> Len(Submenus(m))
                 [] m = "WINDOW_CYCLE"   -> s.window_list
                 [] m = "DISPLAY_TOGGLE" -> s.monitors
                 [] m = "CONTEXT_MENU"   -> s.context_commands
                 [] OTHER                -> 0
  IN  IF m \in ListedModes /\ total = 0
        THEN [left |-> <<>>, center |-> <<>>, right |-> <<>>]
      ELSE IF m \in ListedModes /\ total = 1
        THEN [left |-> <<>>, center |-> <<0>>, right |-> <<>>]
      ELSE [left |-> <<PyMod(s.submenu_index - 1, total)>>,
            center |-> <<s.submenu_index>>,
            right |-> <<PyMod(s.submenu_index + 1, total)>>]

\* C26: in a carousel mode with K >= 1 options and selection i, the display
\* shows the labels of options (i - 1) mod K, i and (i + 1) mod K as left,
\* center and right.
C26_ThreeSlots ==
  (/\ menu_mode \in IndexedModes \cap mode_handlers
   /\ OptionCount(menu_mode) >= 1
   /\ submenu_index < OptionCount(menu_mode)) =>
    display_slots(Machine, menu_mode) =
      [left |-> <<PyMod(submenu_index - 1, OptionCount(menu_mode))>>,
       center |-> <<submenu_index>>,
       right |-> <<PyMod(submenu_index + 1, OptionCount(menu_mode))>>]

\* ------------------------------------------------------------------------
\* The linear controls under rotations and presses
\* ------------------------------------------------------------------------
\* The states the device of mode m's control may be in when the mode is
\* entered: any volume in whole percent, any gain in whole dB, any
\* brightness in whole percent.
InitialLevels(m) ==
  CASE m = "VOLUME" ->
         {[DefaultLevels EXCEPT !.volume = SetMasterVolumeLevelScalar(percent),
                                !.muted = muted] :
            percent \in 0..100, muted \in BOOLEAN}
    [] m = "VM_MIC" ->
         {[DefaultLevels EXCEPT !.gain = gain, !.muted = muted] :
            gain \in GAIN_MIN..GAIN_MAX, muted \in BOOLEAN}
    [] m \in GainModes \ {"VM_MIC"} ->
         {[DefaultLevels EXCEPT !.gain = gain] : gain \in GAIN_MIN..GAIN_MAX}
    [] m = "DISPLAY_BRIGHTNESS" ->
         {[DefaultLevels EXCEPT !.brightness = brightness] :
            brightness \in 0..100}
    [] OTHER -> {DefaultLevels}

\* A linear-control mode is active, with any volume, gain or brightness the
\* device may have at that moment.
InitLevels ==
  /\ current_command = 0
  /\ previous_command = 0
  /\ \E vm \in BOOLEAN, plugin \in {"absent", "ok"} :
       /\ vm_available = vm
       /\ commands = load_plugins(_register_commands(vm), plugin)
       /\ mode_handlers = setup_handlers(vm, plugin)
       /\ plugin_calls = LoadedCalls(FALSE, plugin)
       /\ plugin_handlers = LoadedHandlers(FALSE, plugin)
  /\ setup_pc = "done"
  /\ menu_mode \in LevelModes \cap mode_handlers
  /\ levels \in InitialLevels(menu_mode)
  /\ qt = QtIdle
  /\ gesture = NoGesture
  /\ submenu_index = 0
  /\ last_click_time = Sat(DOUBLE_CLICK_MS)
  /\ click_count = 0
  /\ last_rotation_index = 0
  /\ routing_selection = 0
  /\ menu_timer = 0
  /\ window_list = 0
  /\ single_click_timer = NoTimer
  /\ last_command_index = 0
  /\ current_idx = [m \in ThemeColorModes |-> 0]
  /\ should_save = [m \in ThemeColorModes |-> FALSE]
  /\ monitors = 0
  /\ context_commands = 0
  /\ hid_pc = "idle"
  /\ hid_local = [within |-> FALSE, age |-> 0, mode |-> NORMAL]
  /\ poll_pc = "sleep"
  /\ poll_local = NORMAL
  /\ exited = {}
  /\ events_left = 0
  /\ calls = <<>> /\ entered = <<>> /\ notes = <<>> /\ shown = <<>>
  /\ escaped = FALSE
  /\ last_step = "init"
  /\ watch = NoWatch

\* What a step on a linear control leaves alone.
LevelFrame ==
  UNCHANGED <<app_state, vm_available, setup_pc, plugin_calls, plugin_handlers,
              commands, mode_handlers, single_click_timer, last_command_index,
              current_idx, should_save, monitors, context_commands, hid_pc,
              hid_local, poll_pc, poll_local, events_left, entered, notes, shown,
              escaped, watch, qt, gesture>>

\* handler.on_rotation(state, clockwise) of the active linear control.
LevelRotate(clockwise) ==
  /\ levels' = level_on_rotation(levels, menu_mode, clockwise)
  /\ calls' = <<<<"on_rotation", menu_mode, clockwise>>>>
  /\ exited' = ExitedAfter(exited, calls')
  /\ last_step' = "rotation"
  /\ LevelFrame

\* handler.on_press(state) of the active linear control.
LevelPress ==
  /\ levels' = level_on_press(levels, menu_mode)
  /\ calls' = <<<<"on_press", menu_mode>>>>
  /\ exited' = ExitedAfter(exited, calls')
  /\ last_step' = "single_click"
  /\ LevelFrame

NextLevels == LevelRotate(TRUE) \/ LevelRotate(FALSE) \/ LevelPress

SpecLevels == InitLevels /\ [][NextLevels]_vars

\* The range of the control of mode m.
LevelMin(m) == IF m \in GainModes THEN GAIN_MIN ELSE 0
LevelMax(m) == IF m \in GainModes THEN GAIN_MAX ELSE 100
LevelStep(m) ==
  CASE m = "VOLUME"             -> VOLUME_STEP
    [] m \in GainModes          -> GAIN_STEP
    [] m = "DISPLAY_BRIGHTNESS" -> BRIGHTNESS_STEP
    [] OTHER                    -> 0

\* C27: the value of every linear control stays in its range (volume and
\* brightness in 0..100, gain in -60..12 dB), the displayed progress is a
\* fraction in [0, 1], and a rotation moves the value by exactly one step in
\* its direction, or to the bound when the step would pass it.
C27_LinearControls ==
  [][/\ LevelMin(menu_mode) <= level_value(levels', menu_mode)
     /\ level_value(levels', menu_mode) <= LevelMax(menu_mode)
     /\ 0 <= level_progress(levels', menu_mode)[1]
     /\ level_progress(levels', menu_mode)[1]
          <= level_progress(levels', menu_mode)[2]
     /\ last_step' = "rotation" =>
          level_value(levels', menu_mode) =
            Max(LevelMin(menu_mode), Min(LevelMax(menu_mode),
                level_value(levels, menu_mode)
                  + (IF calls'[1][3] THEN 1 ELSE -1) * LevelStep(menu_mode)))]_vars

Ignored ==
  last_step' \in {"long_press", "other"} /\ events_left' = events_left - 1

\* C29: a LongPress in any mode, a Release and an unrecognised event type
\* change no field of the application state (the inactivity timestamp
\* included), no handler's own field and not the pending deferred click, and
\* call no handler, no enter_mode, no notification and no display callback.
C29_IgnoredEvents ==
  [][Ignored =>
       /\ app_state' = app_state
       /\ single_click_timer' = single_click_timer
       /\ UNCHANGED <<current_idx, should_save, monitors, context_commands,
                      last_command_index>>
       /\ calls' = <<>> /\ entered' = <<>>
       /\ notes' = <<>> /\ shown' = <<>>
       /\ ~escaped']_vars

\* A LongPress has been routed in a menu mode while a deferred click was
\* pending: the click is still pending and counted.
C29_Witness ==
  /\ last_step = "long_press" /\ menu_mode # NORMAL
  /\ single_click_timer.alive /\ click_count = 1
  /\ menu_timer > 0

\* ------------------------------------------------------------------------
\* The timeout check has no effect
\* ------------------------------------------------------------------------
\* The poller has called check_menu_timeout() and got True.
ReportedTimeout == poll_pc = "sleep" /\ poll_pc' = "exit"

\* C30: evaluating check_menu_timeout() changes nothing but the poller's own
\* position: no field of the application state (the timestamp and the mode
\* included), no handler field, no timer, and no call is made; the check
\* therefore gives the same answer when repeated at once.
C30_CheckIsPure ==
  [][ReportedTimeout =>
       /\ app_state' = app_state
       /\ single_click_timer' = single_click_timer
       /\ UNCHANGED <<current_idx, should_save, monitors, context_commands,
                      last_command_index, calls, exited, entered, notes, shown>>
       /\ check_menu_timeout /\ check_menu_timeout']_vars

\* The check has returned True in THEME_MENU and exit_menu_mode() has not run
\* yet: the mode is still active and the timestamp still expired.
C30_Witness ==
  /\ poll_pc = "exit" /\ menu_mode = "THEME_MENU"
  /\ menu_timer > MENU_TIMEOUT_MS
  /\ check_menu_timeout

\* ------------------------------------------------------------------------
\* Rotation of a carousel
\* ------------------------------------------------------------------------
\* The modes whose handler moves a circular selection index on rotation.
CarouselModes == IndexedModes \cup ThemeColorModes \cup VMRoutingModes

\* The selection index of mode m's handler in the machine s, and the number
\* of options it cycles through.
CarouselIndex(s, m) ==
  IF m \in ThemeColorModes THEN s.current_idx[m]
  ELSE IF m \in VMRoutingModes THEN s.routing_selection
  ELSE s.submenu_index

CarouselCount(s, m) ==
  CASE m \in SelectorModes   -> Len(Submenus(m))
    [] m = "WINDOW_CYCLE"    -> s.window_list
    [] m = "DISPLAY_TOGGLE"  -> s.monitors
    [] m = "CONTEXT_MENU"    -> s.context_commands
    [] m \in ThemeColorModes -> NumColors
    [] m \in VMRoutingModes  -> 3
    [] OTHER                 -> 0

RECURSIVE Turned(_, _, _, _)
\* The machine after n rotations of mode m's handler in one direction.
Turned(s, m, clockwise, n) ==
  IF n = 0 THEN s
  ELSE Turned(on_rotation(s, m, clockwise, Quiet), m, clockwise, n - 1)

\* C31: in a carousel mode with K options and selection i, a clockwise
\* rotation gives (i + 1) mod K and a counter-clockwise one (i - 1) mod K,
\* both in 0..K-1; from an index in 0..K-1 a clockwise step followed by a
\* counter-clockwise one, and K clockwise steps, give i again; with K = 0
\* the index stays as it is.
C31_CircularIndex ==
  (menu_mode \in CarouselModes \cap mode_handlers) =>
    LET m == menu_mode
        K == CarouselCount(Machine, m)
        i == CarouselIndex(Machine, m)
        cw == CarouselIndex(Turned(Machine, m, TRUE, 1), m)
        ccw == CarouselIndex(Turned(Machine, m, FALSE, 1), m)
    IN  IF K = 0 THEN cw = i /\ ccw = i
        ELSE /\ cw = (i + 1) % K /\ ccw = (i - 1) % K
             /\ cw \in 0..(K - 1) /\ ccw \in 0..(K - 1)
             /\ i \in 0..(K - 1) =>
                  /\ CarouselIndex(
                       on_rotation(Turned(Machine, m, TRUE, 1), m, FALSE, Quiet),
                       m) = i
                  /\ CarouselIndex(Turned(Machine, m, TRUE, K), m) = i

\* A counter-clockwise rotation in WINDOW_MENU has wrapped the selection from
\* the first option to the last of the three.
C31_Witness ==
  /\ last_step = "rotation" /\ menu_mode = "WINDOW_MENU"
  /\ calls = <<<<"on_rotation", "WINDOW_MENU", FALSE>>,
               <<"get_display_text", "WINDOW_MENU">>>>
  /\ submenu_index = 2

\* ------------------------------------------------------------------------
\* Saving a theme colour
\* ------------------------------------------------------------------------
\* A press was executed by a theme colour handler and its should_save flag
\* has not been consumed by a display refresh.
SavePending == \E m \in ThemeColorModes : should_save[m]

\* The last step handed the UI callback a payload with 'save_theme'.
SaveShown == \E i \in 1..Len(shown) : shown[i].save_theme

\* C32: once the deferred click has run ThemeColorHandler.on_press, a
\* display payload carrying 'save_theme' is eventually passed to the UI
\* callback.
C32_SaveDirectiveShown == SavePending ~> SaveShown
\* ---------------------------------------------------------------------
\* C33: at most one deferred single-click timer is started and neither
\* fired nor cancelled, in every state; a press that schedules a new timer
\* has cancelled the one the field held.
Pending == (IF single_click_timer.alive THEN 1 ELSE 0) + single_click_timer.others

C33_OnePending == Pending <= 1

\* a press in a menu mode replaced a timer that was still pending.
C33_Witness ==
  /\ last_step = "press_end"
  /\ single_click_timer.alive /\ single_click_timer.rem = DOUBLE_CLICK_MS
  /\ single_click_timer.cancelled
  /\ click_count = 1

\* ---------------------------------------------------------------------
\* C34: whenever no handler is in progress, click_count is 0 or 1, and it
\* is 0 when the active mode is NORMAL.
BetweenEvents == hid_pc = "idle" /\ poll_pc = "sleep"

C34_ClickCountRange ==
  BetweenEvents => /\ click_count \in {0, 1}
                   /\ (menu_mode = NORMAL => click_count = 0)

\* ---------------------------------------------------------------------
\* The poller's exit_menu_mode() call, made after a positive check, finds a
\* menu mode active and leaves it.
PollerExits == poll_pc = "exit" /\ poll_pc' = "sleep" /\ menu_mode # NORMAL

\* C35: when the poller's auto-exit leaves a mode, the inactivity timestamp
\* of that mode is at least MENU_TIMEOUT_MS old, and the mode is the one
\* for which check_menu_timeout() had returned True.
C35_AutoExitOnlyExpired ==
  [][PollerExits => /\ menu_timer >= MENU_TIMEOUT_MS
                    /\ menu_mode = poll_local]_vars

\* ---------------------------------------------------------------------
\* The theme menus: the command that opens them, then MaxApiCalls events
\* ---------------------------------------------------------------------
ThemeModes == ThemeColorModes \cup {"THEME_MENU"}

\* "Theme Settings": the command's action, enter_mode(THEME_MENU).
ThemeOpen ==
  /\ menu_mode = NORMAL
  /\ "THEME_MENU" \in mode_handlers
  /\ Commit(enter_mode(Machine, "THEME_MENU", Quiet), "enter_mode")
  /\ UNCHANGED <<registry, single_click_timer, last_command_index, hid_pc,
                 hid_local, poll_pc, poll_local, events_left, watch>>

\* an event dispatched while a theme mode is active.
ThemeEvent ==
  /\ menu_mode \in ThemeModes
  /\ events_left > 0
  /\ events_left' = events_left - 1
  /\ UNCHANGED <<registry, single_click_timer, hid_pc,
                 hid_local, poll_pc, poll_local, watch>>

\* handle_rotation in a theme mode, one step clockwise or back.
ThemeRotate(clockwise) ==
  /\ ThemeEvent
  /\ LET next_index == PyMod(last_command_index + (IF clockwise THEN 1 ELSE -1),
                             CommandRegistry_count)
     IN  /\ Commit(handle_rotation(Machine, next_index, Quiet), "rotation")
         /\ last_command_index' = next_index

\* the deferred click of a press in a theme mode.
ThemePress ==
  /\ ThemeEvent
  /\ Commit(_execute_single_click(Machine, Quiet), "single_click")
  /\ UNCHANGED last_command_index

\* handle_double_tap in a theme mode.
ThemeBack ==
  /\ ThemeEvent
  /\ Commit(handle_double_tap(Machine, Quiet), "double_tap")
  /\ UNCHANGED last_command_index

NextTheme ==
  ThemeOpen \/ ThemeRotate(TRUE) \/ ThemeRotate(FALSE) \/ ThemePress \/ ThemeBack

SpecTheme == InitApi /\ [][NextTheme]_vars

\* Every on_press / on_rotation call of `log` is made on the handler of
\* `mode`, and not on a handler whose on_exit was called with no on_enter
\* since; ex = the handlers in that position before the log.
RECURSIVE CallbacksAttached(_, _, _)
CallbacksAttached(ex, log, mode) ==
  IF log = <<>> THEN TRUE
  ELSE LET c == Head(log)
       IN  /\ c[1] \in {"on_press", "on_rotation"} =>
                c[2] = mode /\ c[2] \notin ex
           /\ CallbacksAttached(ExitedAfter(ex, <<c>>), Tail(log), mode)

\* C36: in every step, each on_press / on_rotation call goes to the handler
\* of the mode that is active, and never to a handler whose on_exit has
\* been called with no on_enter since.
C36_CallbacksOnlyWhileActive ==
  [][calls' # calls => CallbacksAttached(exited, calls', menu_mode)]_vars

\* ---------------------------------------------------------------------
\* The HID thread has dispatched one rotation completely while NORMAL was
\* the active mode.
RotatedInNormal ==
  /\ menu_mode = NORMAL /\ hid_pc = "idle" /\ hid_pc' = "idle"
  /\ last_step' = "rotation" /\ events_left' = events_left - 1

\* The application's synthesized index agrees with the selection.
IndexInStep ==
  (menu_mode = NORMAL /\ hid_pc = "idle") => last_command_index = current_command

\* C37: a rotation step dispatched in NORMAL moves current_command by one
\* position in the direction of the step (mod the number of commands), and
\* whenever NORMAL is active and no event is being dispatched,
\* last_command_index equals current_command.
C37_SelectionFollowsEncoder ==
  /\ []IndexInStep
  /\ [][RotatedInNormal =>
          LET N == CommandRegistry_count
              d == IF last_command_index' = PyMod(last_command_index + 1, N)
                     THEN 1 ELSE -1
          IN  current_command' = PyMod(current_command + d, N)]_vars

\* ---------------------------------------------------------------------
\* The Qt application: Press / Release / rotation / DoubleTap translated
\* into calls of the state machine
\* ---------------------------------------------------------------------
\* The orders in which the reports of one double tap may arrive: the
\* DoubleTap report before or after the Release of the second tap.
DoubleTapOrders ==
  { <<"PRESS", "RELEASE", "PRESS", "DOUBLE", "RELEASE">>,
    <<"PRESS", "RELEASE", "PRESS", "RELEASE", "DOUBLE">> }

\* What the user does with the knob, as the reports it produces.
Gestures ==
  { [kind |-> "click", script |-> <<"PRESS", "RELEASE">>],
    [kind |-> "hold_turn", script |-> <<"PRESS", "CW", "RELEASE">>],
    [kind |-> "hold_turn", script |-> <<"PRESS", "CCW", "RELEASE">>],
    [kind |-> "turn", script |-> <<"CW">>],
    [kind |-> "turn", script |-> <<"CCW">>] }
  \cup { [kind |-> "double_tap", script |-> o] : o \in DoubleTapOrders }

\* The gesture records that may follow the arrival of report `ev`: the
\* gesture in progress continues, or a new gesture starts with it.
Emitted(ev) ==
  IF gesture.script # <<>>
    THEN IF Head(gesture.script) = ev
           THEN {[gesture EXCEPT !.script = Tail(@)]}
           ELSE {}
  ELSE IF gesture.left = 0 THEN {}
  ELSE { [script |-> Tail(g.script), kind |-> g.kind, presses |-> 0,
          left |-> gesture.left - 1] : g \in {h \in Gestures : Head(h.script) = ev} }

\* _on_hid_event runs on the main thread, one event at a time.
QtReady == hid_pc = "idle"

QtStatic ==
  UNCHANGED <<vm_available, setup_pc, plugin_calls, plugin_handlers, commands,
              mode_handlers, levels, poll_pc, poll_local, events_left>>

\* _handle_press
QtPress ==
  /\ QtReady
  /\ gesture' \in Emitted("PRESS")
  /\ qt' = [qt EXCEPT !.is_pressed = TRUE, !.was_rotated_while_pressed = FALSE]
  /\ QtStatic
  /\ UNCHANGED <<app_state, single_click_timer, last_command_index, current_idx,
                 should_save, monitors, context_commands, hid_pc, hid_local,
                 calls, exited, entered, notes, shown, last_step, escaped, watch>>

\* _handle_release, up to its call of state_machine.handle_press().
QtRelease ==
  /\ QtReady
  /\ LET call == ~qt.ignore_next_release /\ ~qt.was_rotated_while_pressed
     IN  /\ \E g \in Emitted("RELEASE") :
              gesture' = [g EXCEPT !.presses = IF call THEN @ + 1 ELSE @]
         /\ hid_pc' = IF call THEN "_handle_release" ELSE "idle"
  /\ qt' = IF qt.ignore_next_release
             THEN [qt EXCEPT !.ignore_next_release = FALSE, !.is_pressed = FALSE]
             ELSE [qt EXCEPT !.is_pressed = FALSE,
                             !.was_rotated_while_pressed = FALSE]
  /\ QtStatic
  /\ UNCHANGED <<app_state, single_click_timer, last_command_index, current_idx,
                 should_save, monitors, context_commands, hid_local,
                 calls, exited, entered, notes, shown, last_step, escaped, watch>>

\* handle_press called by _handle_release in NORMAL.
QtPressNormal ==
  /\ hid_pc = "_handle_release"
  /\ menu_mode = NORMAL
  /\ LET s == handle_press_normal(Machine, Quiet)
     IN  /\ Commit(s, "press_normal")
         /\ single_click_timer' = Outlive(single_click_timer, s)
  /\ hid_pc' = "idle"
  /\ watch' = NoWatch
  /\ UNCHANGED <<registry, last_command_index, hid_local, poll_pc, poll_local,
                 events_left>>

\* handle_press called by _handle_release in a menu mode, first half.
QtPressBegin ==
  /\ hid_pc = "_handle_release"
  /\ menu_mode # NORMAL
  /\ hid_pc' = "handle_press"
  /\ hid_local' = [within |-> last_click_time < DOUBLE_CLICK_MS, age |-> 0,
                  mode |-> menu_mode]
  /\ watch' = NoWatch
  /\ Commit(Machine, "press_begin")
  /\ UNCHANGED <<registry, single_click_timer, last_command_index, poll_pc,
                 poll_local, events_left>>

\* _handle_rotation
QtRotate(clockwise) ==
  /\ QtReady
  /\ gesture' \in Emitted(IF clockwise THEN "CW" ELSE "CCW")
  /\ qt' = IF qt.is_pressed THEN [qt EXCEPT !.was_rotated_while_pressed = TRUE]
           ELSE qt
  /\ LET count == IF CommandRegistry_count = 0 THEN 4 ELSE CommandRegistry_count
         direction == IF clockwise THEN 1 ELSE -1
         new_index == PyMod(last_command_index + direction, count)
         s == handle_rotation(Machine, new_index, Quiet)
     IN  /\ Commit(s, "rotation")
         /\ last_command_index' = new_index
         /\ single_click_timer' = Outlive(single_click_timer, s)
  /\ watch' = NoWatch
  /\ QtStatic
  /\ UNCHANGED <<hid_pc, hid_local>>

\* _handle_double_tap
QtDoubleTap ==
  /\ QtReady
  /\ gesture' \in Emitted("DOUBLE")
  /\ qt' = [qt EXCEPT !.ignore_next_release = TRUE]
  /\ LET s == exit_menu_mode(Machine, Quiet)
     IN  /\ Commit(s, "double_tap")
         /\ single_click_timer' = Outlive(single_click_timer, s)
  /\ watch' = NoWatch
  /\ QtStatic
  /\ UNCHANGED <<last_command_index, hid_pc, hid_local>>

NextQt ==
  \/ QtPress \/ QtRelease \/ QtPressNormal \/ QtPressBegin \/ HidPressEnd
  \/ QtRotate(TRUE) \/ QtRotate(FALSE) \/ QtDoubleTap

SpecQt == InitApi /\ [][NextQt]_vars

\* The last report of the gesture has been handled.
GestureDone == gesture.script = <<>> /\ hid_pc = "idle"

\* C38: once a click (Press, Release, nothing in between, not part of a
\* double tap) has been handled it has produced exactly one handle_press
\* call, also when a double tap came before it, whichever order the reports
\* of that double tap arrived in; a Press / Release pair with a rotation in
\* between has produced none.
C38_GestureTranslation ==
  GestureDone => /\ (gesture.kind = "click" => gesture.presses = 1)
                 /\ (gesture.kind = "hold_turn" => gesture.presses = 0)

\* ---------------------------------------------------------------------
\* C39: whenever a menu mode is active a handler is registered for it,
\* whatever the outcome of plugin loading was.
C39_ActiveModeHasHandler == menu_mode # NORMAL => menu_mode \in mode_handlers

====
